---- MODULE Spec2Model ----
(***************************************************************************)
(* Model of githookkit's object-range pipeline (git_commands.go) and of    *)
(* the orchestrator run() of cmd/ref-update/main.go.                        *)
(*                                                                         *)
(* A line of text is a sequence of tokens; the tokens of a line are        *)
(* separated by single spaces, so <<"b1", "a">> is the line "b1 a" and a   *)
(* trailing empty token stands for a trailing space ("d1 ").  A multi-line *)
(* text is a sequence of tokens in which the token NL is the newline.      *)
(***************************************************************************)
EXTENDS Naturals, Sequences, FiniteSets

\* ------------------------------------------------------------------ bounds
\* Longest output of the listing process (number of lines).
MaxObjs == 3
\* batchSize ranges over 1..MaxBatchSize (the source fixes it to 1000).
MaxBatchSize == 2

\* ------------------------------------------------- the repository (git side)
NL == "\n"

\* The object store: type and size (as printed, in decimal) of each object.
Store ==
  [ c1 |-> [type |-> "commit", size |-> "2"],
    d1 |-> [type |-> "tree",   size |-> "1"],
    b1 |-> [type |-> "blob",   size |-> "1"],
    b2 |-> [type |-> "blob",   size |-> "3"],
    c2 |-> [type |-> "commit", size |-> "2"],
    c3 |-> [type |-> "commit", size |-> "2"],
    d2 |-> [type |-> "tree",   size |-> "1"],
    d3 |-> [type |-> "tree",   size |-> "2"],
    d4 |-> [type |-> "tree",   size |-> "2"],
    b3 |-> [type |-> "blob",   size |-> "3"] ]

\* Tokens made of the characters [a-f0-9] only.
HexTokens ==
  {"c1", "c2", "c3", "d1", "d2", "d3", "d4", "b1", "b2", "b3", "e0"}

\* Tokens made of decimal digits only, with their value.
Decimal == [ t \in {"0", "1", "2", "3"} |->
               CASE t = "0" -> 0 [] t = "1" -> 1 [] t = "2" -> 2 [] t = "3" -> 3 ]

\* The lines `git rev-list --objects` prints: a commit (hash only), a
\* directory, a file, a file whose path holds a space.
ListingLines ==
  { <<"c1">>, <<"d1", "dir">>, <<"b1", "a">>, <<"b2", "x", "y">> }

\* The lines a caller feeds to GetObjectDetails directly: a name that is no
\* object name, a well-formed name of an object the repository lacks (with a
\* path), and two files.
FeedLines ==
  { <<"invalid1">>, <<"e0", "p">>, <<"b1", "a">>, <<"b2", "x", "y">> }

RECURSIVE SeqsUpTo(_, _)
SeqsUpTo(S, n) ==
  IF n = 0 THEN { <<>> }
  ELSE LET shorter == SeqsUpTo(S, n - 1)
       IN  shorter \cup { Append(s, x) : s \in { t \in shorter : Len(t) = n - 1 }, x \in S }

Range(s) == { s[i] : i \in 1..Len(s) }

\* ---------------------------------------------------------- size predicates
\* sizeFilter: nil, or a closure `size > limit` (main.go) / `size < limit`.
NilFilter == [kind |-> "nil", limit |-> 0]
AlwaysTrue == [kind |-> "true", limit |-> 0]
Filters == { NilFilter, [kind |-> "gt", limit |-> 2], [kind |-> "lt", limit |-> 2] }

ApplyFilter(f, size) ==
  CASE f.kind = "gt"   -> size > f.limit
    [] f.kind = "lt"   -> size < f.limit
    [] f.kind = "true" -> TRUE

\* ------------------------------------------------------------- text helpers
\* The concatenation of a sequence of sequences.
RECURSIVE Concat(_)
Concat(ss) == IF ss = <<>> THEN <<>> ELSE Head(ss) \o Concat(Tail(ss))

\* strings.Fields: the non-empty whitespace-delimited tokens of a line.
Fields(line) == SelectSeq(line, LAMBDA t : t # "")

\* strings.Join(objects, "\n")
RECURSIVE Join(_)
Join(objects) ==
  IF objects = <<>> THEN <<>>
  ELSE IF Len(objects) = 1 THEN Head(objects)
  ELSE Head(objects) \o <<NL>> \o Join(Tail(objects))

\* The lines of a text (what the external tool and bufio.Scanner read).
RECURSIVE SplitLines(_)
SplitLines(text) ==
  IF \A i \in 1..Len(text) : text[i] # NL THEN <<text>>
  ELSE LET k == CHOOSE i \in 1..Len(text) :
                   text[i] = NL /\ \A j \in 1..(i - 1) : text[j] # NL
       IN  <<SubSeq(text, 1, k - 1)>> \o SplitLines(SubSeq(text, k + 1, Len(text)))

\* git cat-file --batch-check='%(objectname) %(objectsize) %(objecttype) %(rest)'
\* for one input line: the object name is the first token, %(rest) is the
\* remainder of the line (empty when there is none: the output then ends with
\* the format's space).
DescribeLine(line) ==
  IF line = <<>> THEN <<"", "missing">>
  ELSE IF Head(line) \in DOMAIN Store
       THEN <<Head(line), Store[Head(line)].size, Store[Head(line)].type>>
              \o (IF Tail(line) = <<>> THEN <<"">> ELSE Tail(line))
       ELSE <<Head(line), "missing">>

RECURSIVE MapDescribe(_)
MapDescribe(lines) ==
  IF lines = <<>> THEN <<>> ELSE <<DescribeLine(Head(lines))>> \o MapDescribe(Tail(lines))

\* The complete output of the bulk query on its standard input.
CatFile(input) == MapDescribe(SplitLines(input))

\* regexp `^([a-f0-9]+) (\d+) (blob|tree)(?: (.+))?$`
Matches(line) ==
  /\ Len(line) >= 3
  /\ line[1] \in HexTokens
  /\ line[2] \in DOMAIN Decimal
  /\ line[3] \in {"blob", "tree"}
  /\ ~(Len(line) = 4 /\ line[4] = "")

\* strconv.ParseInt(matches[2], 10, 64)
ParseInt(tok) == Decimal[tok]

\* matches[4]: the text after the type, <<>> being the empty string.
PathOf(line) == SubSeq(line, 4, Len(line))

\* Mutant: the record's path is taken from the group before the path's.
FileInfoTypeAsPath(line) ==
  [Hash |-> line[1], Size |-> ParseInt(line[2]), Path |-> <<line[3]>>]

FileInfo(line) ==
  [Hash |-> line[1], Size |-> ParseInt(line[2]), Path |-> PathOf(line)]

\* ------------------------------------------------------------ program state
VARIABLES
  mode,              \* which enumerator is called: "span" or "single"
  revs,              \* the start and end references passed to the enumerator
  resolves,          \* repository: does the start / end reference resolve
  listing,           \* repository: the lines the listing process prints
  includePath,       \* GetObjectList's includePath argument
  sizeFilter,        \* GetObjectDetails' sizeFilter argument
  batchSize,         \* const batchSize of GetObjectDetails
  runpc,             \* run(): position of the caller
  runErr,            \* run(): the error it returns ("none" for nil)
  results,           \* run(): the slice it collects
  procStarted,       \* the listing process was started (cmd.Start)
  procWaited,        \* the listing process was waited on (cmd.Wait)
  procExit,          \* what cmd.Wait returned: "none" before, "ok", "error"
  readerpc,          \* listing reader goroutine: position
  readPos,           \* listing reader: lines scanned so far
  objectChan,        \* identifiers sent and not yet received
  objectChanClosed,
  grouperpc,         \* grouping goroutine: position
  batch,             \* grouping goroutine: var batch []string
  inputEnded,        \* grouping goroutine: the range loop has ended
  output,            \* processObjectBatch: lines of the response to scan
  outPos,            \* processObjectBatch: next line of output to scan
  queries,           \* bulk queries issued so far: their input and outcome
  resultChan,        \* records sent and not yet received
  resultChanClosed,
  count,             \* CountCommits: its arguments, position, output and result
  cli,               \* main(): its inputs, position, configuration and exit
  evals              \* the calls of sizeFilter so far: query, line and size

vars == << mode, revs, resolves, listing, includePath, sizeFilter, batchSize, runpc, runErr,
           results, procStarted, procWaited, procExit, readerpc, readPos, objectChan,
           objectChanClosed, grouperpc, batch, inputEnded, output, outPos,
           queries, resultChan, resultChanClosed, count, cli, evals >>

\* What no step of the object pipeline changes.
inputVars == << mode, revs, resolves, listing, includePath, sizeFilter, batchSize,
               count, cli >>
runVars == << runpc, runErr, results >>
readerVars == << procStarted, procWaited, procExit, readerpc, readPos,
                objectChanClosed >>
grouperVars == << grouperpc, batch, inputEnded, output, outPos, queries,
                  resultChanClosed, evals >>

\* Mutant: the identifier channel is made with a buffer of one.
ObjectChanBuffered == 0 + 1

\* Mutant: the result channel is made with a buffer of one.
ResultChanBuffered == 0 + 1

\* make(chan string) and make(chan FileInfo): unbuffered.
ObjectChanCap == 0
ResultChanCap == 0

\* No call of CountCommits or VerifyCommit is under way.
CountIdle ==
  [pc |-> "idle", version |-> "", newRev |-> "", oldRev |-> "", exec |-> "",
   out |-> <<>>, result |-> 0, verified |-> FALSE, err |-> "none"]

\* map[string]int64{}: the map without entries.
EmptyLimits == [p \in {} |-> 0]

\* Config{ProjectsWhitelist: []string{}, ProjectSizeLimits: map[string]int64{}}
EmptyConfig ==
  [ProjectsWhitelist |-> <<>>, ProjectSizeLimits |-> EmptyLimits,
   LogConfig |-> [Level |-> "", Output |-> ""]]

\* The admission command is not running.
CliIdle ==
  [pc |-> "idle", project |-> "", file |-> [state |-> "missing"], env |-> <<>>,
   config |-> EmptyConfig, loadErr |-> "none", whitelisted |-> FALSE,
   sizeLimit |-> 0, maxFileSize |-> 0, rejected |-> FALSE, report |-> <<>>,
   exit |-> 0]

Init ==
  /\ count = CountIdle
  /\ cli = CliIdle
  /\ mode = "span"
  /\ revs = [start |-> "oldrev", end |-> "newrev"]
  /\ resolves \in [start : BOOLEAN, end : BOOLEAN]
  /\ listing \in SeqsUpTo(ListingLines, MaxObjs)
  /\ includePath \in BOOLEAN
  /\ sizeFilter \in Filters
  /\ batchSize \in 1..MaxBatchSize
  /\ runpc = "verifyStart"
  /\ runErr = "none"
  /\ results = <<>>
  /\ procStarted = FALSE
  /\ procWaited = FALSE
  /\ procExit = "none"
  /\ readerpc = "idle"
  /\ readPos = 0
  /\ objectChan = <<>>
  /\ objectChanClosed = FALSE
  /\ grouperpc = "idle"
  /\ batch = <<>>
  /\ inputEnded = FALSE
  /\ output = <<>>
  /\ outPos = 1
  /\ queries = <<>>
  /\ evals = <<>>
  /\ resultChan = <<>>
  /\ resultChanClosed = FALSE

\* ----------------------------------------------------- GetObjectList, run
\* Mutant: the start commit's failure is reported as the end commit's.
ValidateStartMisnamed(ok) == IF ok THEN "none" ELSE "InvalidEnd"

\* git rev-parse --verify startCommit; err != nil returns "Invalid start commit".
ValidateStart(ok) == IF ok THEN "none" ELSE "InvalidStart"

\* Mutant: the end commit's validation error is ignored.
ValidateEndIgnored(ok) == "none"

\* git rev-parse --verify endCommit; err != nil returns "Invalid end commit".
ValidateEnd(ok) == IF ok THEN "none" ELSE "InvalidEnd"

VerifyStart ==
  /\ runpc = "verifyStart"
  /\ LET e == ValidateStart(resolves.start)
     IN  IF e # "none"
         THEN runpc' = "error" /\ runErr' = e
         ELSE runpc' = "verifyEnd" /\ runErr' = runErr
  /\ UNCHANGED << inputVars, results, readerVars, objectChan, grouperVars, resultChan >>

VerifyEnd ==
  /\ runpc = "verifyEnd"
  /\ LET e == ValidateEnd(resolves.end)
     IN  IF e # "none"
         THEN runpc' = "error" /\ runErr' = e
         ELSE runpc' = "startListing" /\ runErr' = runErr
  /\ UNCHANGED << inputVars, results, readerVars, objectChan, grouperVars, resultChan >>

\* cmd.StdoutPipe(), cmd.Start(), go func(): the reader is spawned only when
\* the listing process has started.
StartListing ==
  /\ runpc = "startListing"
  /\ \E o \in {"ok", "PipeFailed", "StartFailed"} :
       IF o = "ok"
       THEN /\ procStarted' = TRUE
            /\ readerpc' = "scan"
            /\ runpc' = "details"
            /\ runErr' = runErr
       ELSE /\ runpc' = "error"
            /\ runErr' = o
            /\ UNCHANGED << procStarted, readerpc >>
  /\ UNCHANGED << inputVars, results, procWaited, procExit, readPos, objectChanClosed,
                  objectChan, grouperVars, resultChan >>

\* GetObjectDetails: make(chan FileInfo), go func(), return resultChan, nil.
GetObjectDetails ==
  /\ runpc = "details"
  /\ grouperpc' = "recv"
  /\ runpc' = "collect"
  /\ UNCHANGED << inputVars, runErr, results, readerVars, objectChan, batch,
                  inputEnded, output, outPos, queries, evals, resultChanClosed,
                  resultChan >>

\* ------------------------------------------------ listing reader goroutine
\* Mutant: the reader sends the hash only, whatever includePath is.
SendHashOnly(line, withPath) ==
  IF Len(Fields(line)) > 0 THEN << <<Fields(line)[1]>> >> ELSE <<>>

\* Mutant: the reader sends the line as it is in both modes.
SendWholeLine(line, withPath) == <<line>>

\* Mutant: the reader takes includePath the wrong way round.
SendPathWhenExcluded(line, withPath) ==
  IF ~withPath THEN <<line>>
  ELSE IF Len(Fields(line)) > 0 THEN << <<Fields(line)[1]>> >> ELSE <<>>

\* What the reader sends for a scanned line; <<>> when it sends nothing.
ToSend(line, withPath) ==
  IF withPath THEN <<line>>
  ELSE IF Len(Fields(line)) > 0 THEN << <<Fields(line)[1]>> >> ELSE <<>>

\* Mutant: a send completes at once, whether or not the item was received.
SendNeverWaits(ch, cap) == Len(ch) >= 0

\* A send on a channel of capacity cap has completed when at most cap items
\* are still in flight.
SendDone(ch, cap) == Len(ch) <= cap

\* scanner.Scan() returned a line; objectChan <- ...
ReaderSend ==
  /\ readerpc = "scan"
  /\ SendDone(objectChan, ObjectChanCap)
  /\ readPos < Len(listing)
  /\ readPos' = readPos + 1
  /\ objectChan' = objectChan \o ToSend(listing[readPos + 1], includePath)
  /\ UNCHANGED << inputVars, runVars, procStarted, procWaited, procExit, readerpc,
                  objectChanClosed, grouperVars, resultChan >>

\* Mutant: the reader returns without closing the identifier channel.
ReaderReturnsUnclosed ==
  /\ readerpc = "scan"
  /\ SendDone(objectChan, ObjectChanCap)
  /\ readPos = Len(listing)
  /\ procWaited' = TRUE
  /\ procExit' = "ok"
  /\ readerpc' = "done"
  /\ UNCHANGED << inputVars, runVars, procStarted, readPos, objectChan,
                  objectChanClosed, grouperVars, resultChan >>

\* Mutant: the reader closes the identifier channel without waiting on the
\* listing process.
ReaderClosesUnwaited ==
  /\ readerpc = "scan"
  /\ SendDone(objectChan, ObjectChanCap)
  /\ readPos = Len(listing)
  /\ objectChanClosed' = TRUE
  /\ readerpc' = "done"
  /\ UNCHANGED << inputVars, runVars, procStarted, procWaited, procExit, readPos,
                  objectChan, grouperVars, resultChan >>

\* Mutant: the identifier channel is closed only when the listing process
\* exited without an error.
ClosedOnSuccessOnly(exit) == exit = "ok"

\* defer close(objectChan): the channel is closed however cmd.Wait() ended.
ClosedAfterWait(exit) == exit \in {"ok", "error"}

\* scanner.Scan() returned false at the end of the output and cmd.Wait()
\* returned nil; output.Close(), close(objectChan).
ReaderFinish ==
  /\ readerpc = "scan"
  /\ SendDone(objectChan, ObjectChanCap)
  /\ readPos = Len(listing)
  /\ procWaited' = TRUE
  /\ procExit' = "ok"
  /\ objectChanClosed' = ClosedAfterWait("ok")
  /\ readerpc' = "done"
  /\ UNCHANGED << inputVars, runVars, procStarted, readPos, objectChan,
                  grouperVars, resultChan >>

\* The listing process fails after printing readPos of its lines (or the read
\* fails there): scanner.Scan() returned false and cmd.Wait() returned an
\* error; return, output.Close(), close(objectChan).
ReaderListingFailed ==
  /\ readerpc = "scan"
  /\ SendDone(objectChan, ObjectChanCap)
  /\ readPos <= Len(listing)
  /\ procWaited' = TRUE
  /\ procExit' = "error"
  /\ objectChanClosed' = ClosedAfterWait("error")
  /\ readerpc' = "done"
  /\ UNCHANGED << inputVars, runVars, procStarted, readPos, objectChan,
                  grouperVars, resultChan >>

\* ------------------------------------------- grouping goroutine, one batch
\* Mutant: the identifier is put in front of the batch.
PrependObject(b, line) == <<line>> \o b

\* Mutant: the identifier replaces the batch instead of extending it.
OverwriteObject(b, line) == <<line>>

\* batch = append(batch, line)
AppendObject(b, line) == Append(b, line)

\* Mutant: the batch is processed when it holds more than batchSize objects.
BatchOverfull(b, size) == Len(b) > size

\* if len(batch) >= batchSize
BatchFull(b, size) == Len(b) >= size

\* Mutant: the remaining objects are never processed.
NeverFlush(b) == FALSE

\* if len(batch) > 0 (the remaining objects after the loop)
FlushNeeded(b) == Len(b) > 0

\* Mutant: the objects are joined with a space.
JoinWithSpace(objects) == Concat(objects)

\* input := strings.Join(objects, "\n"), the standard input of the bulk query
QueryInput(objects) == Join(objects)

\* Mutant: the output is scanned although the query failed.
ScanDespiteError(out, failed) == out

\* output, err := cmd.CombinedOutput(); if err != nil { return }
ScanLines(out, failed) == IF failed THEN <<>> ELSE out

\* Mutant: the object type is not checked.
EmitAnyType(objType, path, size, filter) ==
  /\ path # <<>>
  /\ (filter.kind = "nil" \/ ApplyFilter(filter, size))

\* Mutant: the size predicate is not applied.
EmitUnfiltered(objType, path, size, filter) ==
  /\ objType = "blob"
  /\ path # <<>>

\* if objType == "blob" && path != "" && (sizeFilter == nil || sizeFilter(size))
EmitCondition(objType, path, size, filter) ==
  /\ objType = "blob"
  /\ path # <<>>
  /\ (filter.kind = "nil" \/ ApplyFilter(filter, size))

\* A response line for which a record is sent.
Qualifies(line, filter) ==
  /\ Matches(line)
  /\ EmitCondition(line[3], PathOf(line), ParseInt(line[2]), filter)

\* Mutant: the scan loop ends at the first line that does not match.
StopAtMismatch(out, pos, filter) ==
  LET cand == { i \in pos..Len(out) :
                  Qualifies(out[i], filter) /\ \A j \in pos..i : Matches(out[j]) }
  IN  IF cand = {} THEN 0 ELSE CHOOSE i \in cand : \A j \in cand : i <= j

\* The first line at or after pos for which a record is sent; 0 if none.
NextEmit(out, pos, filter) ==
  LET cand == { i \in pos..Len(out) : Qualifies(out[i], filter) }
  IN  IF cand = {} THEN 0 ELSE CHOOSE i \in cand : \A j \in cand : i <= j

\* Mutant: the size predicate is called before the type and the path are
\* looked at.
FilterCalledFirst(line, filter) == Matches(line) /\ filter.kind # "nil"

\* objType == "blob" && path != "" && (sizeFilter == nil || sizeFilter(size)):
\* sizeFilter is called when the operands before it are true and it is not
\* nil.
FilterCalled(line, filter) ==
  /\ Matches(line)
  /\ line[3] = "blob"
  /\ PathOf(line) # <<>>
  /\ filter.kind # "nil"

\* The calls of sizeFilter the scan loop makes on the lines from..to of the
\* output of query k, in order.
RECURSIVE FilterCalls(_, _, _, _, _)
FilterCalls(out, from, to, k, filter) ==
  IF from > to THEN <<>>
  ELSE (IF FilterCalled(out[from], filter)
        THEN << [query |-> k, line |-> from, size |-> ParseInt(out[from][2])] >>
        ELSE <<>>) \o FilterCalls(out, from + 1, to, k, filter)

\* for line := range objectChan: one identifier is received.
GrouperRecv ==
  /\ grouperpc = "recv"
  /\ objectChan # <<>>
  /\ objectChan' = Tail(objectChan)
  /\ batch' = AppendObject(batch, Head(objectChan))
  /\ grouperpc' = IF BatchFull(batch', batchSize) THEN "query" ELSE "recv"
  /\ UNCHANGED << inputVars, runVars, readerVars, inputEnded, output, outPos,
                  queries, evals, resultChanClosed, resultChan >>

\* Mutant: the grouping goroutine takes a channel with nothing to receive
\* for the end of its input.
GrouperStopsWhenIdle ==
  /\ grouperpc = "recv"
  /\ objectChan = <<>>
  /\ inputEnded' = TRUE
  /\ IF FlushNeeded(batch)
     THEN grouperpc' = "query" /\ resultChanClosed' = resultChanClosed
     ELSE grouperpc' = "done" /\ resultChanClosed' = TRUE
  /\ UNCHANGED << inputVars, runVars, readerVars, objectChan, batch, output,
                  outPos, queries, evals, resultChan >>

\* Mutant: the grouping goroutine returns without closing the result channel.
GrouperReturnsUnclosed ==
  /\ grouperpc = "recv"
  /\ objectChan = <<>>
  /\ objectChanClosed
  /\ inputEnded' = TRUE
  /\ grouperpc' = IF FlushNeeded(batch) THEN "query" ELSE "done"
  /\ UNCHANGED << inputVars, runVars, readerVars, objectChan, batch, output,
                  outPos, queries, evals, resultChan, resultChanClosed >>

\* The range loop ends on the closed, drained channel; the remaining objects
\* are processed, or the goroutine returns (defer close(resultChan)).
GrouperInputClosed ==
  /\ grouperpc = "recv"
  /\ objectChan = <<>>
  /\ objectChanClosed
  /\ inputEnded' = TRUE
  /\ IF FlushNeeded(batch)
     THEN grouperpc' = "query" /\ resultChanClosed' = resultChanClosed
     ELSE grouperpc' = "done" /\ resultChanClosed' = TRUE
  /\ UNCHANGED << inputVars, runVars, readerVars, objectChan, batch, output,
                  outPos, queries, evals, resultChan >>

\* Mutant: a bulk query that fails closes the result channel, and the
\* grouping goroutine goes on.
GrouperQueryClosesOnFailure ==
  /\ grouperpc = "query"
  /\ LET answer == CatFile(QueryInput(batch))
     IN  \E o \in {"ok", "exit", "nostart"} :
         \E printed \in 0..Len(answer) :
           /\ o = "ok" => printed = Len(answer)
           /\ o = "nostart" => printed = 0
           /\ o = "exit" => printed < Len(answer)
           /\ output' = ScanLines(SubSeq(answer, 1, printed), o # "ok")
           /\ queries' = Append(queries, [input |-> batch, outcome |-> o])
           /\ resultChanClosed' = (resultChanClosed \/ o # "ok")
  /\ outPos' = 1
  /\ grouperpc' = "emit"
  /\ UNCHANGED << inputVars, runVars, readerVars, objectChan, batch, inputEnded,
                  evals, resultChan >>

\* processObjectBatch up to the scan loop: the bulk query runs to its end.  It
\* answers completely ("ok"), exits with an error after printing some of its
\* answer ("exit"), or cannot be started ("nostart").
GrouperQuery ==
  /\ grouperpc = "query"
  /\ LET answer == CatFile(QueryInput(batch))
     IN  \E o \in {"ok", "exit", "nostart"} :
         \E printed \in 0..Len(answer) :
           /\ o = "ok" => printed = Len(answer)
           /\ o = "nostart" => printed = 0
           /\ o = "exit" => printed < Len(answer)
           /\ output' = ScanLines(SubSeq(answer, 1, printed), o # "ok")
           /\ queries' = Append(queries, [input |-> batch, outcome |-> o])
  /\ outPos' = 1
  /\ grouperpc' = "emit"
  /\ UNCHANGED << inputVars, runVars, readerVars, objectChan, batch, inputEnded,
                  evals, resultChanClosed, resultChan >>

\* The scan loop up to its next send: resultChan <- FileInfo{...}
GrouperEmit ==
  /\ grouperpc = "emit"
  /\ SendDone(resultChan, ResultChanCap)
  /\ NextEmit(output, outPos, sizeFilter) # 0
  /\ LET i == NextEmit(output, outPos, sizeFilter)
     IN  /\ resultChan' = Append(resultChan, FileInfo(output[i]))
         /\ outPos' = i + 1
         /\ evals' = evals \o FilterCalls(output, outPos, i, Len(queries), sizeFilter)
  /\ UNCHANGED << inputVars, runVars, readerVars, objectChan, grouperpc, batch,
                  inputEnded, output, queries, resultChanClosed >>

\* The scan loop ends: processObjectBatch returns; batch = nil and the range
\* loop goes on, or the goroutine returns (defer close(resultChan)).
GrouperBatchDone ==
  /\ grouperpc = "emit"
  /\ SendDone(resultChan, ResultChanCap)
  /\ NextEmit(output, outPos, sizeFilter) = 0
  /\ evals' = evals \o FilterCalls(output, outPos, Len(output), Len(queries), sizeFilter)
  /\ batch' = <<>>
  /\ output' = <<>>
  /\ outPos' = 1
  /\ IF inputEnded
     THEN grouperpc' = "done" /\ resultChanClosed' = TRUE
     ELSE grouperpc' = "recv" /\ resultChanClosed' = resultChanClosed
  /\ UNCHANGED << inputVars, runVars, readerVars, objectChan, inputEnded,
                  queries, resultChan >>

\* ----------------------------------------------------- run(): the consumer
\* Mutant: run() keeps a record only the first time it sees it.
CollectedOnce(res, info) ==
  IF info.Path # <<>> /\ info \notin Range(res) THEN Append(res, info) ELSE res

\* if fileInfo.Path != "" { results = append(results, fileInfo) }
Collected(res, info) == IF info.Path # <<>> THEN Append(res, info) ELSE res

\* for fileInfo := range fileInfoChan: one record is received.
Collect ==
  /\ runpc = "collect"
  /\ resultChan # <<>>
  /\ results' = Collected(results, Head(resultChan))
  /\ resultChan' = Tail(resultChan)
  /\ UNCHANGED << inputVars, runpc, runErr, readerVars, objectChan, grouperVars >>

\* The range loop ends on the closed, drained channel: return results, nil.
CollectEnd ==
  /\ runpc = "collect"
  /\ resultChan = <<>>
  /\ resultChanClosed
  /\ runpc' = "done"
  /\ UNCHANGED << inputVars, runErr, results, readerVars, objectChan,
                  grouperVars, resultChan >>

Next ==
  \/ VerifyStart
  \/ VerifyEnd
  \/ StartListing
  \/ GetObjectDetails
  \/ ReaderSend
  \/ ReaderFinish
  \/ GrouperRecv
  \/ GrouperInputClosed
  \/ GrouperQuery
  \/ GrouperEmit
  \/ GrouperBatchDone
  \/ Collect
  \/ CollectEnd

Spec == Init /\ [][Next]_vars

\* ---------------------------------------------------- derived observations
\* The identifiers the reader has sent after scanning n lines of the listing.
SentAfter(n) == Concat([i \in 1..n |-> ToSend(listing[i], includePath)])

\* Every identifier the listing yields.
AllIdentifiers == SentAfter(Len(listing))

\* The identifiers submitted in bulk queries so far, in issue order.
Submitted == Concat([k \in 1..Len(queries) |-> queries[k].input])

\* The identifiers the grouping task has received so far.
Received == Submitted \o (IF grouperpc = "emit" THEN <<>> ELSE batch)

\* The records handed to the result channel so far, in order.  (run() keeps
\* every record whose path is non-empty.)
Emitted == results \o resultChan

\* The response line of a well-behaved bulk query for one identifier line, and
\* the records due for it under a predicate.
RecordsOfLine(line, filter) ==
  LET l == DescribeLine(line)
  IN  IF /\ Matches(l)
         /\ l[3] = "blob"
         /\ PathOf(l) # <<>>
         /\ (filter.kind = "nil" \/ ApplyFilter(filter, ParseInt(l[2])))
      THEN <<FileInfo(l)>>
      ELSE <<>>

\* The records due for a sequence of identifier lines queried one at a time.
RecordsOf(lines, filter) ==
  Concat([i \in 1..Len(lines) |-> RecordsOfLine(lines[i], filter)])

\* The records due for the bulk queries issued so far: those of the queries
\* that succeeded.
RecordsOfQueries ==
  Concat([k \in 1..Len(queries) |->
            IF queries[k].outcome = "ok"
            THEN RecordsOf(queries[k].input, sizeFilter) ELSE <<>>])

IsPrefix(s, t) == Len(s) <= Len(t) /\ SubSeq(t, 1, Len(s)) = s

IsSuffix(s, t) == Len(s) <= Len(t) /\ SubSeq(t, Len(t) - Len(s) + 1, Len(t)) = s

RECURSIVE IsSubseq(_, _)
IsSubseq(s, t) ==
  IF s = <<>> THEN TRUE
  ELSE IF t = <<>> THEN FALSE
  ELSE IF Head(s) = Head(t) THEN IsSubseq(Tail(s), Tail(t))
  ELSE IsSubseq(s, Tail(t))

\* The identifier line ("hash path") a record stands for.
LineOf(info) == <<info.Hash>> \o info.Path

NoQueryFailed == \A k \in 1..Len(queries) : queries[k].outcome = "ok"

\* ================================================================== claims

\* The response lines of the bulk queries issued so far, had each answered
\* completely.
ResponseLines ==
  UNION { Range(CatFile(Join(queries[k].input))) : k \in 1..Len(queries) }

\* C1: every record handed to the result channel (in flight or already
\* collected) comes from a response line that matches the pattern, whose type
\* is "blob", whose path is non-empty and whose size passes the size filter
\* when there is one.
C1_EmitOnlyQualifying ==
  \A r \in Range(Emitted) :
    \E l \in ResponseLines :
      /\ Matches(l)
      /\ FileInfo(l) = r
      /\ l[3] = "blob"
      /\ PathOf(l) # <<>>
      /\ (sizeFilter.kind = "nil" \/ ApplyFilter(sizeFilter, ParseInt(l[2])))

\* C1 witness: a finished run under a size predicate that kept a record while
\* a tree line and a blob failing the predicate were described too.
C1_Witness ==
  /\ runpc = "done"
  /\ sizeFilter.kind = "gt"
  /\ results # <<>>
  /\ \E l \in ResponseLines : l[3] = "tree" /\ PathOf(l) # <<>>
  /\ \E l \in ResponseLines : l[3] = "blob" /\ ~ApplyFilter(sizeFilter, ParseInt(l[2]))

\* C2: under a size predicate P the records returned are among the records
\* due for the same identifier sequence under the always-true predicate, and
\* each of them satisfies P(record.Size).
C2_FilterSubset ==
  sizeFilter.kind # "nil" =>
    \A r \in Range(results) :
      /\ r \in Range(RecordsOf(AllIdentifiers, AlwaysTrue))
      /\ ApplyFilter(sizeFilter, r.Size)

\* C2 witness: a finished run under a predicate that returned a proper,
\* non-empty part of the always-true records.
C2_Witness ==
  /\ runpc = "done"
  /\ sizeFilter.kind # "nil"
  /\ results # <<>>
  /\ Range(results) # Range(RecordsOf(AllIdentifiers, AlwaysTrue))

\* C3: grouping is transparent: when no bulk query failed, a finished run
\* with any batchSize returns the record set that querying the identifiers
\* one at a time (group size 1) yields.
C3_GroupingTransparent ==
  (runpc = "done" /\ NoQueryFailed) =>
    Range(results) = Range(RecordsOf(AllIdentifiers, sizeFilter))

\* C3 witness: a finished run without failures whose groups held two
\* identifiers and which returned two different records.
C3_Witness ==
  /\ runpc = "done"
  /\ NoQueryFailed
  /\ batchSize = 2
  /\ \E k \in 1..Len(queries) : Len(queries[k].input) = 2
  /\ Cardinality(Range(results)) >= 2

\* C4: when the input ends with a non-empty group of fewer than batchSize
\* identifiers, that group is flushed: by the time the result channel is
\* closed one bulk query was issued for exactly those identifiers, it is the
\* last one, and the records due for it were handed to the result channel.
C4_FinalPartialFlush ==
  LET n == Len(AllIdentifiers)
      rest == n % batchSize
  IN  (resultChanClosed /\ rest # 0) =>
        /\ queries # <<>>
        /\ batch = <<>>
        /\ LET q == queries[Len(queries)]
           IN  /\ q.input = SubSeq(AllIdentifiers, n - rest + 1, n)
               /\ Len(queries) = (n \div batchSize) + 1
               /\ q.outcome = "ok" => IsSuffix(RecordsOf(q.input, sizeFilter), Emitted)

\* C4 witness: the result channel is closed after a final group of one
\* identifier (batchSize 2) was queried and yielded a record.
C4_Witness ==
  /\ resultChanClosed
  /\ batchSize = 2
  /\ Len(AllIdentifiers) = 3
  /\ queries[Len(queries)].outcome = "ok"
  /\ RecordsOf(queries[Len(queries)].input, sizeFilter) # <<>>

\* C5: a failed bulk query contributes no record and raises no error, and
\* processing goes on: a finished run has a nil error, submitted every
\* identifier, closed the result channel, and returns exactly the records
\* due for the groups whose query succeeded, in order.
C5_FailedGroupDropped ==
  runpc = "done" =>
    /\ runErr = "none"
    /\ resultChanClosed
    /\ Submitted = AllIdentifiers
    /\ results = RecordsOfQueries

\* C5 witness: a finished run in which a group holding a qualifying blob
\* failed and a later group succeeded and delivered a record.
C5_Witness ==
  /\ runpc = "done"
  /\ results # <<>>
  /\ \E k \in 1..Len(queries) :
       /\ queries[k].outcome # "ok"
       /\ RecordsOf(queries[k].input, sizeFilter) # <<>>
       /\ \E j \in (k + 1)..Len(queries) :
            /\ queries[j].outcome = "ok"
            /\ RecordsOf(queries[j].input, sizeFilter) # <<>>

\* C6: if the listing process or a bulk-query process cannot be started, the
\* run fails: run() returns a nil error only if the listing process was
\* started and every bulk query could be started.
C6_ToolStartFailureSurfaced ==
  runpc = "done" =>
    /\ procStarted
    /\ \A k \in 1..Len(queries) : queries[k].outcome # "nostart"

\* C7: when the start or the end reference does not resolve, no listing
\* process is started, neither goroutine is spawned, no identifier is read or
\* sent, no bulk query is issued, and run() ends with an invalid-commit error
\* and no records.
C7_InvalidCommitEager ==
  (~resolves.start \/ ~resolves.end) =>
    /\ ~procStarted
    /\ readerpc = "idle"
    /\ grouperpc = "idle"
    /\ readPos = 0
    /\ objectChan = <<>>
    /\ queries = <<>>
    /\ Emitted = <<>>
    /\ runpc \in {"verifyStart", "verifyEnd", "error"}
    /\ runpc = "error" => runErr \in {"InvalidStart", "InvalidEnd"}

\* C7 witness: run() has returned the error of an end reference that does
\* not resolve, for a listing that would have yielded identifiers.
C7_Witness ==
  /\ runpc = "error"
  /\ resolves.start
  /\ ~resolves.end
  /\ listing # <<>>

\* C8: the error names the side that failed (the start when both do), and
\* GetObjectList gets past validation only if both references resolve.
C8_ErrorNamesSide ==
  /\ runErr = "InvalidStart" => ~resolves.start
  /\ runErr = "InvalidEnd" => (~resolves.end /\ resolves.start)
  /\ runpc \in {"startListing", "details", "collect", "done"} =>
       (resolves.start /\ resolves.end)
  /\ (runpc = "error" /\ ~resolves.start) => runErr = "InvalidStart"
  /\ (runpc = "error" /\ resolves.start /\ ~resolves.end) => runErr = "InvalidEnd"

\* C8 witness: the start reference does not resolve, the end reference does,
\* and run() has returned the error naming the start.
C8_Witness ==
  /\ runpc = "error"
  /\ runErr = "InvalidStart"
  /\ ~resolves.start
  /\ resolves.end

\* C9: the records are emitted in the order of the groups and, within a
\* group, of the response lines: what was emitted so far is a prefix of the
\* records due for the successful queries in issue order, and the emitted
\* records, read as identifier lines, are an order-preserving subsequence of
\* the identifiers sent.
C9_OrderPreserved ==
  /\ IsPrefix(Emitted, RecordsOfQueries)
  /\ IsSubseq([i \in 1..Len(Emitted) |-> LineOf(Emitted[i])], SentAfter(readPos))

\* C9 witness: a finished run returned three records from two groups, not
\* all the same.
C9_Witness ==
  /\ runpc = "done"
  /\ batchSize = 2
  /\ Len(results) = 3
  /\ results[1] # results[2]
  /\ results[2] # results[3]

\* C10: both channels hand off synchronously: at most one item is in flight
\* on each, the reader has sent at most one identifier more than the grouping
\* task has received, and a producer whose item has not been received cannot
\* take a step.
C10_SynchronousHandoff ==
  /\ Len(objectChan) <= 1
  /\ Len(resultChan) <= 1
  /\ SentAfter(readPos) = Received \o objectChan
  /\ objectChan # <<>> => (~ENABLED ReaderSend /\ ~ENABLED ReaderFinish)
  /\ resultChan # <<>> => (~ENABLED GrouperEmit /\ ~ENABLED GrouperBatchDone)

\* C10 witness: the reader is blocked on an identifier while the grouping
\* task is blocked on a record and has more records of the group to send.
C10_Witness ==
  /\ objectChan # <<>>
  /\ resultChan # <<>>
  /\ grouperpc = "emit"
  /\ NextEmit(output, outPos, sizeFilter) # 0

\* ------------------------------------------- a consumer that stops receiving
\* The caller of GetObjectDetails stops receiving from the result channel
\* before it is closed (there is nothing it could cancel the producers with).
ConsumerAbandon ==
  /\ runpc = "collect"
  /\ runpc' = "abandoned"
  /\ UNCHANGED << inputVars, runErr, results, readerVars, objectChan,
                  grouperVars, resultChan >>

NextAbandon == Next \/ ConsumerAbandon

\* The pipeline with a consumer that may stop receiving at any time.
SpecAbandon == Init /\ [][NextAbandon]_vars

\* The consumer has stopped and the grouping task is at a push of one more
\* record.
PushAbandoned == runpc = "abandoned" /\ resultChan # <<>>

\* C11 (as stated): once the consumer has stopped with one more record being
\* pushed, neither channel is ever closed and the listing process is never
\* waited on.
C11_NothingClosedNorWaited ==
  PushAbandoned => (~resultChanClosed /\ ~objectChanClosed /\ ~procWaited)

\* C11 (amended): once the consumer has stopped with one more record being
\* pushed, the grouping task stays blocked on that push for ever and the
\* result channel is never closed; while identifiers remain that the
\* grouping task has not received, the identifier channel is not closed and
\* the listing process is not waited on, and a reader that is at a push of
\* one of them stays blocked on it for ever.
C11_NoCancellation ==
  /\ [](PushAbandoned =>
          /\ grouperpc = "emit"
          /\ ~resultChanClosed
          /\ ~ENABLED GrouperEmit
          /\ ~ENABLED GrouperBatchDone
          /\ ~ENABLED Collect
          /\ Received \o objectChan # AllIdentifiers =>
               (~objectChanClosed /\ ~procWaited)
          /\ objectChan # <<>> => ~ENABLED NextAbandon)
  /\ [][PushAbandoned =>
          /\ PushAbandoned'
          /\ UNCHANGED << grouperVars, resultChan, runVars >>]_vars

\* C11 witness: the consumer has stopped, the grouping task is blocked on a
\* record and the reader is blocked on an identifier with more to come.
C11_Witness ==
  /\ PushAbandoned
  /\ objectChan # <<>>
  /\ readPos < Len(listing)
  /\ ~objectChanClosed

\* ------------------------------------------------------------- termination
\* Both goroutines have returned, both channels are closed and drained, and
\* run() has returned its list.
PipelineDone ==
  /\ readerpc = "done"
  /\ grouperpc = "done"
  /\ runpc = "done"
  /\ procWaited
  /\ objectChanClosed
  /\ resultChanClosed
  /\ objectChan = <<>>
  /\ resultChan = <<>>

\* The statements run() has ahead of it.
RunRank ==
  CASE runpc = "verifyStart"  -> 5
    [] runpc = "verifyEnd"    -> 4
    [] runpc = "startListing" -> 3
    [] runpc = "details"      -> 2
    [] runpc = "collect"      -> 1
    [] OTHER                  -> 0

\* An upper bound on the steps the three tasks have ahead of them: each line
\* not yet scanned is sent, received, queried, answered, emitted and
\* collected at most once.
Variant ==
  RunRank
    + 6 * (Len(listing) - readPos)
    + (IF readerpc = "done" THEN 0 ELSE 1)
    + 5 * Len(objectChan)
    + (IF inputEnded THEN 0 ELSE 1)
    + (IF grouperpc = "emit"
       THEN 2 * (Len(output) + 1 - outPos) + 1
       ELSE 4 * Len(batch))
    + Len(resultChan)

\* Some task can take a step: the bulk query of a group always ends, and
\* every other statement is a channel operation or a local step.
CanStep ==
  \/ grouperpc = "query"
  \/ ENABLED (\/ VerifyStart \/ VerifyEnd \/ StartListing \/ GetObjectDetails
              \/ ReaderSend \/ ReaderFinish
              \/ GrouperRecv \/ GrouperInputClosed \/ GrouperEmit \/ GrouperBatchDone
              \/ Collect \/ CollectEnd)

\* A step that uses up budget, scans forward only, keeps the queries issued,
\* and leaves a closed channel closed with nothing more sent on it.
SinglePassStep ==
  /\ Variant' < Variant
  /\ objectChanClosed => (objectChanClosed' /\ objectChan' = <<>>)
  /\ resultChanClosed => (resultChanClosed' /\ Len(resultChan') <= Len(resultChan))
  /\ readPos' >= readPos
  /\ IsPrefix(queries, queries')

\* C12: with a consumer that receives until the result channel is closed,
\* the run ends whatever the lines are and whichever queries fail: every
\* step uses up a bounded budget (no line is scanned, no identifier received
\* and no record delivered a second time), and the run can stop only with an
\* error before anything is spawned or with the reader and the grouping task
\* returned and the identifier channel and then the result channel closed.
\* The identifiers received are the identifiers of the listing, each once
\* and in order, and a closed channel stays closed and carries nothing more.
C12_FiniteSinglePass ==
  /\ [](/\ runpc = "error" \/ PipelineDone \/ CanStep
        /\ IsPrefix(Received \o objectChan, AllIdentifiers)
        /\ Len(Emitted) <= Len(RecordsOfQueries)
        /\ resultChanClosed => (objectChanClosed /\ Received = AllIdentifiers)
        /\ runpc = "done" => (PipelineDone /\ Len(results) = Len(RecordsOfQueries)))
  /\ [][SinglePassStep]_vars

\* C12 witness: a run over three lines, one of them not a blob, ended with
\* everything closed although a group failed.
C12_Witness ==
  /\ PipelineDone
  /\ Len(listing) = 3
  /\ \E i \in 1..3 : Head(listing[i]) = "c1"
  /\ \E k \in 1..Len(queries) : queries[k].outcome # "ok"
  /\ results # <<>>

\* C13: when the identifier channel is closed without having delivered any
\* identifier, GetObjectDetails has returned a nil error, no bulk query is
\* issued and no record is emitted; the grouping task's only step is to end
\* its range loop, and once it has returned the result channel is closed
\* and run() returns an empty list.
C13_EmptyInput ==
  (AllIdentifiers = <<>> /\ grouperpc # "idle") =>
    /\ runErr = "none"
    /\ queries = <<>>
    /\ batch = <<>>
    /\ Emitted = <<>>
    /\ grouperpc \in {"recv", "done"}
    /\ ~ENABLED GrouperRecv
    /\ (grouperpc = "recv" /\ objectChanClosed) => ENABLED GrouperInputClosed
    /\ grouperpc = "done" => resultChanClosed
    /\ resultChanClosed => (objectChanClosed /\ grouperpc = "done")
    /\ runpc = "done" => (resultChanClosed /\ results = <<>>)

\* C13 witness: the listing printed nothing, the grouping task has returned
\* with the result channel closed and run() has returned.
C13_Witness ==
  /\ listing = <<>>
  /\ objectChanClosed
  /\ grouperpc = "done"
  /\ resultChanClosed
  /\ runpc = "done"
  /\ queries = <<>>

\* ------------------------------------------- GetObjectDetails fed directly
\* A caller feeds GetObjectDetails from a goroutine of its own, which sends
\* its lines as they are and closes the channel (the feed stands in for the
\* listing process and its reader).
InitDirect ==
  /\ count = CountIdle
  /\ cli = CliIdle
  /\ mode = "span"
  /\ revs = [start |-> "oldrev", end |-> "newrev"]
  /\ resolves = [start |-> TRUE, end |-> TRUE]
  /\ listing \in SeqsUpTo(FeedLines, MaxObjs)
  /\ includePath = TRUE
  /\ sizeFilter \in Filters
  /\ batchSize \in 1..MaxBatchSize
  /\ runpc = "details"
  /\ runErr = "none"
  /\ results = <<>>
  /\ procStarted = TRUE
  /\ procWaited = FALSE
  /\ procExit = "none"
  /\ readerpc = "scan"
  /\ readPos = 0
  /\ objectChan = <<>>
  /\ objectChanClosed = FALSE
  /\ grouperpc = "idle"
  /\ batch = <<>>
  /\ inputEnded = FALSE
  /\ output = <<>>
  /\ outPos = 1
  /\ queries = <<>>
  /\ evals = <<>>
  /\ resultChan = <<>>
  /\ resultChanClosed = FALSE

NextDirect ==
  \/ GetObjectDetails
  \/ ReaderSend
  \/ ReaderFinish
  \/ GrouperRecv
  \/ GrouperInputClosed
  \/ GrouperQuery
  \/ GrouperEmit
  \/ GrouperBatchDone
  \/ Collect
  \/ CollectEnd

SpecDirect == InitDirect /\ [][NextDirect]_vars

\* The bulk tool describes the object an identifier line names by a line
\* that matches the pattern.
Describable(line) == Matches(DescribeLine(line))

\* C14: a response line that does not match the pattern yields no record
\* and no error, and the lines after it are still processed: no record
\* stands for an identifier the bulk tool cannot describe, the error stays
\* nil, every line of a response is scanned before the group is done, and a
\* finished run returns, for each successful group, what the group yields
\* with the identifiers that cannot be described taken out of it.
C14_MismatchDiscarded ==
  /\ runErr = "none"
  /\ \A r \in Range(Emitted) : Describable(LineOf(r))
  /\ ENABLED GrouperBatchDone =>
       \A i \in outPos..Len(output) : ~Qualifies(output[i], sizeFilter)
  /\ runpc = "done" =>
       results = Concat([k \in 1..Len(queries) |->
                   IF queries[k].outcome = "ok"
                   THEN RecordsOf(SelectSeq(queries[k].input, Describable), sizeFilter)
                   ELSE <<>>])

\* C14 witness: a finished run in which one group held an invalid name and
\* then a file, its query succeeded and the file's record was returned.
C14_Witness ==
  /\ runpc = "done"
  /\ \E k \in 1..Len(queries) :
       /\ queries[k].outcome = "ok"
       /\ queries[k].input = << <<"invalid1">>, <<"b1", "a">> >>
  /\ \E i \in 1..Len(results) : results[i].Hash = "b1"
  /\ \E i \in 1..Len(listing) : listing[i] = <<"e0", "p">>

\* ------------------------------------------------- a repository with history
\* Three commits: c1 is the root, c2 and c3 are its children; two branches.
Commits == {"c1", "c2", "c3"}

ParentsOf == [c \in Commits |-> IF c = "c1" THEN {} ELSE {"c1"}]

\* The references of the repository (what `--all` stands for).
AllRefs == [main |-> "c2", side |-> "c3"]

\* The commits, newest first, as the listing prints them.
CommitOrder == <<"c3", "c2", "c1">>

\* The walk of each commit's tree: the root tree (empty path), then the files.
TreeOf ==
  [ c1 |-> << <<"d2", "">> >>,
    c2 |-> << <<"d3", "">>, <<"b1", "a">>, <<"b2", "x", "y">> >>,
    c3 |-> << <<"d4", "">>, <<"b1", "a">>, <<"b3", "s">> >> ]

\* The names a caller passes: the commits and a name that does not resolve.
RevNames == Commits \cup {"bad"}

\* git rev-parse --verify name
RevParse(name) == name \in Commits

\* A commit and the commits it descends from, under a parent relation.
RECURSIVE AncestorsIn(_, _)
AncestorsIn(parents, c) == {c} \cup UNION { AncestorsIn(parents, p) : p \in parents[c] }

Ancestors(c) == AncestorsIn(ParentsOf, c)

\* The commits reachable from a set of tips, and all objects reachable from it.
ReachCommits(tips) == UNION { Ancestors(c) : c \in tips }

ObjectsOf(cs) == cs \cup UNION { { Head(l) : l \in Range(TreeOf[c]) } : c \in cs }

ReachObjects(tips) == ObjectsOf(ReachCommits(tips))

\* The first occurrence of each line of a sequence of lines.
RECURSIVE Dedup(_)
Dedup(ls) ==
  IF ls = <<>> THEN <<>>
  ELSE LET front == Dedup(SubSeq(ls, 1, Len(ls) - 1))
           last == ls[Len(ls)]
       IN  IF last \in Range(front) THEN front ELSE Append(front, last)

\* git rev-list --objects tips ^bottoms: the commits reachable from the tips
\* and not from the bottoms, then the trees and files of these commits that
\* are not reachable from the bottoms.
RevListObjects(tips, bottoms) ==
  LET cs == SelectSeq(CommitOrder,
                      LAMBDA c : c \in ReachCommits(tips) \ ReachCommits(bottoms))
      walk == Concat([i \in 1..Len(cs) |-> TreeOf[cs[i]]])
  IN  [i \in 1..Len(cs) |-> <<cs[i]>>]
        \o Dedup(SelectSeq(walk, LAMBDA l : Head(l) \notin ReachObjects(bottoms)))

\* git rev-list --objects --all start..end
SpanListing(start, end) ==
  RevListObjects({end} \cup { AllRefs[r] : r \in DOMAIN AllRefs }, {start})

\* The single-commit enumerator: the commit, its full tree and the files in it.
SingleListing(commit) == << <<commit>> >> \o TreeOf[commit]

\* The single-commit enumerator validates its commit before it lists.
VerifySingle ==
  /\ runpc = "verifySingle"
  /\ IF resolves.end
     THEN runpc' = "startListing" /\ runErr' = runErr
     ELSE runpc' = "error" /\ runErr' = "InvalidCommit"
  /\ UNCHANGED << inputVars, results, readerVars, objectChan, grouperVars, resultChan >>

\* The enumerator calls a caller makes in this repository.
Calls ==
  { [mode |-> "span", start |-> s, end |-> e] : s \in RevNames, e \in RevNames }
    \cup { [mode |-> "single", start |-> "", end |-> e] : e \in RevNames }

InitRepo ==
  /\ \E call \in Calls :
       /\ mode = call.mode
       /\ revs = [start |-> call.start, end |-> call.end]
       /\ resolves = [start |-> IF call.mode = "span" THEN RevParse(call.start) ELSE TRUE,
                      end |-> RevParse(call.end)]
       /\ listing = IF call.mode = "single"
                    THEN (IF RevParse(call.end) THEN SingleListing(call.end) ELSE <<>>)
                    ELSE (IF RevParse(call.start) /\ RevParse(call.end)
                          THEN SpanListing(call.start, call.end) ELSE <<>>)
       /\ runpc = IF call.mode = "span" THEN "verifyStart" ELSE "verifySingle"
  /\ count = CountIdle
  /\ cli = CliIdle
  /\ includePath \in BOOLEAN
  /\ sizeFilter \in {NilFilter, AlwaysTrue, [kind |-> "gt", limit |-> 2]}
  /\ batchSize \in 1..MaxBatchSize
  /\ runErr = "none"
  /\ results = <<>>
  /\ procStarted = FALSE
  /\ procWaited = FALSE
  /\ procExit = "none"
  /\ readerpc = "idle"
  /\ readPos = 0
  /\ objectChan = <<>>
  /\ objectChanClosed = FALSE
  /\ grouperpc = "idle"
  /\ batch = <<>>
  /\ inputEnded = FALSE
  /\ output = <<>>
  /\ outPos = 1
  /\ queries = <<>>
  /\ evals = <<>>
  /\ resultChan = <<>>
  /\ resultChanClosed = FALSE

NextRepo == Next \/ VerifySingle

SpecRepo == InitRepo /\ [][NextRepo]_vars

\* The hashes of the identifiers the listing yields.
ListedObjects == { Head(l) : l \in Range(listing) }

\* C15: a span lists exactly the objects reachable from end and not from
\* start: once a span's listing has started, the objects listed are this
\* difference, and no returned record names an object reachable from start
\* or an object unreachable from end.
C15_SpanIsDifference ==
  (mode = "span" /\ procStarted) =>
    /\ ListedObjects = ReachObjects({revs.end}) \ ReachObjects({revs.start})
    /\ \A r \in Range(Emitted) :
         /\ r.Hash \notin ReachObjects({revs.start})
         /\ r.Hash \in ReachObjects({revs.end})

\* The files of a commit: the blobs of its tree, which all have a path.
BlobsWithPath(commit) ==
  { Head(l) : l \in { t \in Range(TreeOf[commit]) :
                        Store[Head(t)].type = "blob" /\ Fields(Tail(t)) # <<>> } }

HashesOf(recs) == { recs[i].Hash : i \in 1..Len(recs) }

\* A finished single-commit run with paths under the always-true predicate.
SingleRunDone ==
  /\ mode = "single"
  /\ includePath
  /\ sizeFilter = AlwaysTrue
  /\ runpc = "done"

GroupOf(k) ==
  LET n == Len(AllIdentifiers)
      last == IF k * batchSize < n THEN k * batchSize ELSE n
  IN  SubSeq(AllIdentifiers, (k - 1) * batchSize + 1, last)

C18_FallbackToSingle ==
  (mode = "span" /\ ~RevParse(revs.start) /\ RevParse(revs.end)) =>
    /\ runpc # "error"
    /\ runErr = "none"
    /\ runpc = "done" => ListedObjects = { Head(l) : l \in Range(SingleListing(revs.end)) }

\* C19: run() neither filters nor alters: every record it receives from the
\* result channel is appended as it is to the list, the list changes in no
\* other way, and run() returns only when the closed channel is drained, so
\* the list returned is the sequence of records GetObjectDetails emitted.
C19_RunAddsNothing ==
  /\ [][/\ resultChan' # resultChan =>
             \/ /\ resultChan # <<>>
                /\ resultChan' = Tail(resultChan)
                /\ results' = Append(results, Head(resultChan))
             \/ /\ Len(resultChan') = Len(resultChan) + 1
                /\ IsPrefix(resultChan, resultChan')
                /\ results' = results
        /\ results' # results => resultChan' # resultChan]_vars
  /\ [](runpc = "done" => (resultChan = <<>> /\ resultChanClosed))

\* C19 witness: run() has returned a list in which the same record occurs
\* twice in a row.
C19_Witness ==
  /\ runpc = "done"
  /\ Len(results) >= 2
  /\ results[1] = results[2]

\* ------------------------------------------------------------ CountCommits
\* A longer history, for counting commits (its trees play no part): k1 to k4
\* in a line with HEAD at k4, k5 branching off k2, and k6 pushed on top of k5
\* while no reference points at it yet.
HistoryParents ==
  [ k1 |-> {}, k2 |-> {"k1"}, k3 |-> {"k2"}, k4 |-> {"k3"}, k5 |-> {"k2"},
    k6 |-> {"k5"} ]

\* The commits the references of the repository point at (--all).
HistoryRefs == {"k4", "k5"}

\* "0000000000000000000000000000000000000000", the old value of a reference
\* that is being created.
NullRev == "0000"

\* The commit a revision name stands for; "" when it does not resolve
\* ("pushed" stands for the identifier of k6).
ResolveRev(name) ==
  CASE name = "HEAD"     -> "k4"
    [] name = "HEAD~1"   -> "k3"
    [] name = "HEAD~2"   -> "k2"
    [] name = "HEAD~3"   -> "k1"
    [] name = "side"     -> "k5"
    [] name = "pushed"   -> "k6"
    [] OTHER             -> ""

\* The names CountCommits is called with.
CountNames ==
  {"HEAD", "HEAD~1", "HEAD~2", "HEAD~3", "HEAD~4", "side", "pushed", "bad",
   NullRev}

\* The two versions of CountCommits in the sources.
CountVersions == {"git_commands.go", "part_000"}

\* The commits reachable from tip and not from bottom.
CommitsBetween(bottom, tip) ==
  AncestorsIn(HistoryParents, tip) \ AncestorsIn(HistoryParents, bottom)

\* The commits reachable from tip and from no reference of the repository.
CommitsNotInAll(tip) ==
  AncestorsIn(HistoryParents, tip) \
    UNION { AncestorsIn(HistoryParents, r) : r \in HistoryRefs }

\* The decimal numeral of a number.
ToDecimal(n) == CHOOSE t \in DOMAIN Decimal : Decimal[t] = n

\* git rev-list --count bottom..tip, or git rev-list --count tip --not --all
\* when the bottom is "--all": the count and a newline, or a failure when a
\* name does not resolve.
RevListCount(range) ==
  IF ResolveRev(range.tip) = "" \/ (range.bottom # "--all" /\ ResolveRev(range.bottom) = "")
  THEN [ok |-> FALSE, out |-> <<>>]
  ELSE [ok |-> TRUE,
        out |-> << ToDecimal(Cardinality(
                     IF range.bottom = "--all"
                     THEN CommitsNotInAll(ResolveRev(range.tip))
                     ELSE CommitsBetween(ResolveRev(range.bottom),
                                         ResolveRev(range.tip)))),
                   NL >>]

\* Mutant: the range is written new..old.
RangeSwapped(newRev, oldRev) == [bottom |-> newRev, tip |-> oldRev]

\* fmt.Sprintf("%s..%s", oldRev, newRev)
RangeArg(newRev, oldRev) == [bottom |-> oldRev, tip |-> newRev]

\* The arguments of git rev-list --count: part_000 asks for newRev --not
\* --all when oldRev is the null reference; git_commands.go always asks for
\* the range.
CountArgs(version, newRev, oldRev) ==
  IF version = "part_000" /\ oldRev = NullRev
  THEN [bottom |-> "--all", tip |-> newRev]
  ELSE RangeArg(newRev, oldRev)

\* Mutant: the output is converted as it is.
NoTrim(text) == text

\* strings.TrimSpace
RECURSIVE TrimSpace(_)
TrimSpace(text) ==
  IF text = <<>> THEN <<>>
  ELSE IF Head(text) \in {NL, ""} THEN TrimSpace(Tail(text))
  ELSE IF text[Len(text)] \in {NL, ""} THEN TrimSpace(SubSeq(text, 1, Len(text) - 1))
  ELSE text

\* strconv.Atoi
Atoi(text) ==
  IF Len(text) = 1 /\ text[1] \in DOMAIN Decimal
  THEN [ok |-> TRUE, n |-> Decimal[text[1]]]
  ELSE [ok |-> FALSE, n |-> 0]

\* Mutant: the error of the command is dropped.
OutputErrorDropped(exec) == "none"

\* if err != nil { return 0, fmt.Errorf("Failed to execute git rev-list") }
OutputError(exec) == IF exec = "ok" THEN "none" ELSE "ExecFailed"

\* cmd.Output(): the command cannot be started ("nostart") or exits with an
\* error ("exit"), and CountCommits returns 0 and an error; or its output is
\* taken ("ok").
CountRun ==
  /\ count.pc = "call"
  /\ \E started \in BOOLEAN :
       LET r    == RevListCount(CountArgs(count.version, count.newRev, count.oldRev))
           exec == IF ~started THEN "nostart" ELSE IF r.ok THEN "ok" ELSE "exit"
       IN  IF OutputError(exec) = "none"
           THEN count' = [count EXCEPT !.pc = "parse", !.exec = exec,
                                       !.out = IF started THEN r.out ELSE <<>>]
           ELSE count' = [count EXCEPT !.pc = "done", !.exec = exec,
                                       !.err = OutputError(exec)]
  /\ UNCHANGED << mode, revs, resolves, listing, includePath, sizeFilter, batchSize,
                  cli, runVars, readerVars, objectChan, grouperVars, resultChan >>

\* strconv.Atoi(strings.TrimSpace(string(output))): "Failed to parse commit
\* count", or return count, nil.
CountParse ==
  /\ count.pc = "parse"
  /\ LET a == Atoi(TrimSpace(count.out))
     IN  IF a.ok
         THEN count' = [count EXCEPT !.pc = "done", !.result = a.n]
         ELSE count' = [count EXCEPT !.pc = "done", !.err = "ParseFailed"]
  /\ UNCHANGED << mode, revs, resolves, listing, includePath, sizeFilter, batchSize,
                  cli, runVars, readerVars, objectChan, grouperVars, resultChan >>

\* The references VerifyCommit is called with: the names of CountCommits,
\* the empty string and an identifier that is not in the repository.
VerifyNames == CountNames \cup {"", "f00d"}

\* Mutant: every reference that is not empty is taken for a commit.
NonEmptyIsCommit(ref) == ref # ""

\* The lookup of a reference as a commit of the repository.
IsCommit(ref) == ResolveRev(ref) # ""

\* VerifyCommit(ref): true when the lookup could run and found a commit,
\* false otherwise; no error is returned.
VerifyCommit ==
  /\ count.pc = "verify"
  /\ \E started \in BOOLEAN :
       count' = [count EXCEPT !.pc = "done",
                              !.exec = IF ~started THEN "nostart"
                                       ELSE IF IsCommit(count.newRev) THEN "ok"
                                       ELSE "exit",
                              !.verified = started /\ IsCommit(count.newRev)]
  /\ UNCHANGED << mode, revs, resolves, listing, includePath, sizeFilter, batchSize,
                  cli, runVars, readerVars, objectChan, grouperVars, resultChan >>

\* A call CountCommits(newRev, oldRev) or VerifyCommit(ref); nothing else
\* runs.
InitCount ==
  /\ \/ \E v \in CountVersions, n \in CountNames, o \in CountNames :
          count = [CountIdle EXCEPT !.pc = "call", !.version = v, !.newRev = n,
                                    !.oldRev = o]
     \/ \E ref \in VerifyNames :
          count = [CountIdle EXCEPT !.pc = "verify", !.newRev = ref]
  /\ cli = CliIdle
  /\ mode = "span"
  /\ revs = [start |-> "oldrev", end |-> "newrev"]
  /\ resolves = [start |-> TRUE, end |-> TRUE]
  /\ listing = <<>>
  /\ includePath = FALSE
  /\ sizeFilter = NilFilter
  /\ batchSize = 1
  /\ runpc = "idle"
  /\ runErr = "none"
  /\ results = <<>>
  /\ procStarted = FALSE
  /\ procWaited = FALSE
  /\ procExit = "none"
  /\ readerpc = "idle"
  /\ readPos = 0
  /\ objectChan = <<>>
  /\ objectChanClosed = FALSE
  /\ grouperpc = "idle"
  /\ batch = <<>>
  /\ inputEnded = FALSE
  /\ output = <<>>
  /\ outPos = 1
  /\ queries = <<>>
  /\ evals = <<>>
  /\ resultChan = <<>>
  /\ resultChanClosed = FALSE

NextCount == CountRun \/ CountParse \/ VerifyCommit

SpecCount == InitCount /\ [][NextCount]_vars

\* C20: with an old reference that resolves, a call of CountCommits that
\* returns without error returns the number of commits reachable from the
\* new reference and not from the old one (3 for HEAD against HEAD~3 on the
\* line k1..k4); the output of the count is always parsed.
C20_CountIsDifference ==
  (count.pc = "done" /\ ResolveRev(count.oldRev) # "") =>
    /\ count.err # "ParseFailed"
    /\ count.err = "none" =>
         /\ ResolveRev(count.newRev) # ""
         /\ count.result =
              Cardinality(CommitsBetween(ResolveRev(count.oldRev), ResolveRev(count.newRev)))
         /\ (count.newRev = "HEAD" /\ count.oldRev = "HEAD~3") => count.result = 3
         /\ count.newRev = count.oldRev => count.result = 0

\* C20 witness: CountCommits("HEAD", "HEAD~3") has returned 3 and no error.
C20_Witness ==
  /\ count.pc = "done"
  /\ count.err = "none"
  /\ count.newRev = "HEAD"
  /\ count.oldRev = "HEAD~3"
  /\ count.result = 3

\* C21: a call CountCommits(X, X) with a name X that resolves, whose command
\* could run, returns 0 and no error.
C21_SameRevIsZero ==
  ( /\ count.pc = "done"
    /\ count.newRev = count.oldRev
    /\ ResolveRev(count.newRev) # ""
    /\ count.exec # "nostart" ) =>
    /\ count.result = 0
    /\ count.err = "none"

\* C21 witness: CountCommits("pushed", "pushed") has returned 0 and no error.
C21_Witness ==
  /\ count.pc = "done"
  /\ count.newRev = "pushed"
  /\ count.oldRev = "pushed"
  /\ count.exec = "ok"
  /\ count.result = 0
  /\ count.err = "none"

\* C22: a call of CountCommits whose old reference is the null reference and
\* whose command could run returns, without error, the number of commits
\* reachable from the new reference and from no reference of the repository.
C22_NullRefCountsNewCommits ==
  ( /\ count.pc = "done"
    /\ count.oldRev = NullRev
    /\ ResolveRev(count.newRev) # ""
    /\ count.exec # "nostart" ) =>
    /\ count.err = "none"
    /\ count.result = Cardinality(CommitsNotInAll(ResolveRev(count.newRev)))

C24_VerifyCommitIsLookup ==
  (count.pc = "done" /\ count.exec # "" /\ count.version = "") =>
    /\ count.err = "none"
    /\ count.verified => ResolveRev(count.newRev) # ""
    /\ count.exec # "nostart" => (count.verified <=> ResolveRev(count.newRev) # "")
    /\ count.newRev \in {"", "f00d", "bad"} => ~count.verified

\* C24 witness: VerifyCommit has returned true for HEAD.
C24_Witness ==
  /\ count.pc = "done"
  /\ count.version = ""
  /\ count.exec = "ok"
  /\ count.newRev = "HEAD"
  /\ count.verified

\* ------------------------------------------------ the enumerator's output
\* The string the enumerator is to emit for the i-th line of the listing:
\* the line as it is, or its first token.
ExpectedString(i) ==
  IF includePath THEN <<Head(listing[i])>> \o Tail(listing[i])
  ELSE <<Head(listing[i])>>

\* C25: the strings the enumerator has emitted are, in listing order, one
\* per line read: the identifier alone without paths, the identifier
\* followed by the rest of the line with paths; when the reader has ended
\* every line of the listing has been emitted.
C25_OutputFormat ==
  LET sent == Received \o objectChan
  IN  /\ Len(sent) = readPos
      /\ \A i \in 1..readPos : sent[i] = ExpectedString(i)
      /\ readerpc = "done" => readPos = Len(listing)

\* C25 witness: without paths, the reader has ended on a listing of three
\* or more lines, one of them with a path, and every string was received.
C25_Witness ==
  /\ ~includePath
  /\ readerpc = "done"
  /\ objectChan = <<>>
  /\ Len(listing) >= 3
  /\ \E i \in 1..Len(listing) : Len(listing[i]) > 1
  /\ Len(Received) = Len(listing)

\* ------------------------------------------------------------ configuration
\* A text is a sequence of characters here, so that a number is parsed from
\* its digits.  The digits of a decimal numeral, most significant first,
\* read as a number.
RECURSIVE DigitsValue(_, _)
DigitsValue(digits, acc) ==
  IF digits = <<>> THEN acc
  ELSE DigitsValue(Tail(digits), acc * 10 + Decimal[Head(digits)])

\* strconv.ParseInt(text, 10, 64): an optional sign and one or more digits.
ParseInt64(text) ==
  LET signed == text # <<>> /\ Head(text) \in {"+", "-"}
      digits == IF signed THEN Tail(text) ELSE text
  IN  IF digits = <<>> \/ \E i \in 1..Len(digits) : digits[i] \notin DOMAIN Decimal
      THEN [ok |-> FALSE, n |-> 0]
      ELSE [ok |-> TRUE,
            n  |-> IF Head(text) = "-" THEN 0 - DigitsValue(digits, 0)
                   ELSE DigitsValue(digits, 0)]

\* The project names of the command line and of the configuration.
ProjectNames == {"p1", "p2", "p3", "P1", ""}

\* The values of GITHOOK_FILE_SIZE_MAX: unset or empty, numerals, and texts
\* that are no numeral.
EnvValues ==
  { <<>>, <<"2">>, <<"1", "0">>, <<"-", "1">>, <<"+", "3">>, <<"x">>, <<"2", "k">> }

\* The limits of p1 and p2 in a configuration file.
TwoLimits == [p \in {"p1", "p2"} |-> IF p = "p1" THEN 2 ELSE 0]

\* No file $HOME/.githook_config.
MissingFile == [state |-> "missing", syntaxOk |-> TRUE, entries |-> <<>>]

\* A file with a whitelist, limits and log settings, as TestLoadConfig's.
ValidFile ==
  [state |-> "readable", syntaxOk |-> TRUE,
   entries |-> << [key |-> "projects_whitelist", value |-> <<"p1">>, typed |-> TRUE],
                  [key |-> "project_size_limits", value |-> TwoLimits, typed |-> TRUE],
                  [key |-> "log_config",
                   value |-> [Level |-> "debug", Output |-> "/var/log/githook.log"],
                   typed |-> TRUE] >>]

\* A file whose whitelist holds p3 and the empty project name.
EmptyListedFile ==
  [state |-> "readable", syntaxOk |-> TRUE,
   entries |-> << [key |-> "projects_whitelist", value |-> <<"p3", "">>, typed |-> TRUE] >>]

\* A file with a whitelist and, after it, limits that are no map of numbers.
PartlyTypedFile ==
  [state |-> "readable", syntaxOk |-> TRUE,
   entries |-> << [key |-> "projects_whitelist", value |-> <<"p1">>, typed |-> TRUE],
                  [key |-> "project_size_limits", value |-> "big", typed |-> FALSE] >>]

\* The file $HOME/.githook_config: missing, unreadable, or readable with a
\* document that is no YAML (syntaxOk false) or a list of keys with their
\* values, a value being of the type the Config field has or not.
ConfigFiles ==
  { MissingFile, ValidFile,
    [state |-> "unreadable", syntaxOk |-> TRUE,
     entries |-> << [key |-> "projects_whitelist", value |-> <<"p1">>, typed |-> TRUE] >>],
    [state |-> "readable", syntaxOk |-> TRUE, entries |-> <<>>],
    EmptyListedFile,
    [state |-> "readable", syntaxOk |-> TRUE,
     entries |-> << [key |-> "unknown_key", value |-> "v", typed |-> TRUE],
                    [key |-> "project_size_limits",
                     value |-> [p \in {"p3"} |-> 1], typed |-> TRUE] >>],
    [state |-> "readable", syntaxOk |-> TRUE,
     entries |-> << [key |-> "", value |-> "invalid yaml content", typed |-> FALSE] >>],
    PartlyTypedFile,
    [state |-> "readable", syntaxOk |-> FALSE,
     entries |-> << [key |-> "projects_whitelist", value |-> <<"p2">>, typed |-> TRUE] >>] }

\* The decoding of one key of the document into the Config.
DecodeEntry(config, e) ==
  IF ~e.typed THEN config
  ELSE CASE e.key = "projects_whitelist" ->
              [config EXCEPT !.ProjectsWhitelist = e.value]
         [] e.key = "project_size_limits" ->
              [config EXCEPT !.ProjectSizeLimits =
                 [p \in DOMAIN e.value \cup DOMAIN @ |->
                    IF p \in DOMAIN e.value THEN e.value[p] ELSE @[p]]]
         [] e.key = "log_config" ->
              [config EXCEPT !.LogConfig = e.value]
         [] OTHER -> config

RECURSIVE DecodeEntries(_, _)
DecodeEntries(config, entries) ==
  IF entries = <<>> THEN config
  ELSE DecodeEntries(DecodeEntry(config, Head(entries)), Tail(entries))

\* yaml.Unmarshal(configData, &config): a document that is no YAML leaves
\* the Config alone; otherwise every key of the right type is decoded, and
\* an error is returned when a value is not of the type of its field.
Unmarshal(data, config) ==
  IF ~data.syntaxOk THEN [config |-> config, err |-> TRUE]
  ELSE [config |-> DecodeEntries(config, data.entries),
        err    |-> \E i \in 1..Len(data.entries) : ~data.entries[i].typed]

\* Mutant: what was decoded before the error is returned.
DecodedSoFar(u) == u.config

\* if err := yaml.Unmarshal(...); err != nil { return Config{...empty}, nil }
\* return config, nil
Decoded(u) == IF u.err THEN EmptyConfig ELSE u.config

\* LoadConfig(): the Config and the error (always nil).
LoadConfig(file) ==
  IF file.state # "readable"
  THEN [config |-> EmptyConfig, err |-> "none"]
  ELSE [config |-> Decoded(Unmarshal(file, EmptyConfig)), err |-> "none"]

\* Mutant: the empty project name is always found.
ContainsOrEmpty(slice, item) ==
  item = "" \/ \E i \in 1..Len(slice) : slice[i] = item

\* Contains(slice, item)
Contains(slice, item) == \E i \in 1..Len(slice) : slice[i] = item

IsProjectWhitelisted(config, project) == Contains(config.ProjectsWhitelist, project)

\* var sizeLimit int64 = 5 * 1024 * 1024
DefaultSizeLimit == 5 * 1024 * 1024

\* Mutant: the environment's limit is preferred to the project's.
EnvironmentFirst(config, project, envSize) ==
  IF envSize # <<>> /\ ParseInt64(envSize).ok THEN ParseInt64(envSize).n
  ELSE IF project \in DOMAIN config.ProjectSizeLimits
       THEN config.ProjectSizeLimits[project]
       ELSE DefaultSizeLimit

\* GetSizeLimit(config, project), envSize being GITHOOK_FILE_SIZE_MAX.
GetSizeLimit(config, project, envSize) ==
  LET sizeLimit == IF envSize # <<>> /\ ParseInt64(envSize).ok
                   THEN ParseInt64(envSize).n
                   ELSE DefaultSizeLimit
  IN  IF project \in DOMAIN config.ProjectSizeLimits
      THEN config.ProjectSizeLimits[project]
      ELSE sizeLimit

\* --------------------------------------------------------------- FormatSize
\* const ( B = 1; KB = 1024 * B; MB = 1024 * KB; GB = 1024 * MB )
KB == 1024
MB == 1024 * KB
GB == 1024 * MB

\* The characters of the decimal digits.
DigitChars == <<"0", "1", "2", "3", "4", "5", "6", "7", "8", "9">>

\* The decimal numeral of a natural number, as characters.
RECURSIVE DecimalText(_)
DecimalText(n) ==
  IF n < 10 THEN <<DigitChars[n + 1]>>
  ELSE DecimalText(n \div 10) \o <<DigitChars[(n % 10) + 1]>>

\* fmt.Sprintf("%d", n)
SprintfD(n) == IF n < 0 THEN <<"-">> \o DecimalText(0 - n) ELSE DecimalText(n)

\* float64(size)/float64(unit) rounded to hundredths as %.2f rounds it: the
\* quotient by a power of two is exact, and the exact value is rounded to
\* the nearest hundredth, a tie going to the even digit.  (100 * rest / unit
\* is computed as 25a + 5t1 + t2 + b2/quarter, which keeps every product
\* small.)
Hundredths(size, unit) ==
  LET whole   == size \div unit
      rest    == size % unit
      quarter == unit \div 4
      a       == rest \div quarter
      b       == rest % quarter
      t1      == (5 * b) \div quarter
      b1      == (5 * b) % quarter
      t2      == (5 * b1) \div quarter
      b2      == (5 * b1) % quarter
      floorH  == 25 * a + 5 * t1 + t2
      up      == 2 * b2 > quarter \/ (2 * b2 = quarter /\ floorH % 2 = 1)
  IN  whole * 100 + floorH + (IF up THEN 1 ELSE 0)

\* fmt.Sprintf("%.2f", float64(size)/float64(unit))
SprintfF2(size, unit) ==
  LET h == Hundredths(size, unit)
  IN  DecimalText(h \div 100) \o <<".">> \o
      <<DigitChars[((h % 100) \div 10) + 1], DigitChars[(h % 10) + 1]>>

\* Mutant: a size that equals a threshold stays in the smaller unit.
UnitAbove(size) ==
  IF size > GB THEN "GB" ELSE IF size > MB THEN "MB" ELSE IF size > KB THEN "KB" ELSE "B"

\* switch { case size >= GB: ... case size >= MB: ... case size >= KB: ... }
UnitOf(size) ==
  IF size >= GB THEN "GB" ELSE IF size >= MB THEN "MB" ELSE IF size >= KB THEN "KB" ELSE "B"

\* FormatSize(size): the text, as characters.
FormatSize(size) ==
  CASE UnitOf(size) = "GB" -> SprintfF2(size, GB) \o <<" ", "G", "B">>
    [] UnitOf(size) = "MB" -> SprintfF2(size, MB) \o <<" ", "M", "B">>
    [] UnitOf(size) = "KB" -> SprintfF2(size, KB) \o <<" ", "K", "B">>
    [] OTHER               -> SprintfD(size) \o <<" ", "B">>

\* -------------------------------------------------- main() of ref-update
\* cfg, _ := config.LoadConfig()
MainLoadConfig ==
  /\ cli.pc = "load"
  /\ LET l == LoadConfig(cli.file)
     IN  cli' = [cli EXCEPT !.pc = "whitelist", !.config = l.config, !.loadErr = l.err]
  /\ UNCHANGED << mode, revs, resolves, listing, includePath, sizeFilter, batchSize,
                  count, runVars, readerVars, objectChan, grouperVars, resultChan >>

\* if config.IsProjectWhitelisted(cfg, *project) { os.Exit(0) }
MainWhitelist ==
  /\ cli.pc = "whitelist"
  /\ IF IsProjectWhitelisted(cli.config, cli.project)
     THEN cli' = [cli EXCEPT !.pc = "exited", !.whitelisted = TRUE, !.exit = 0]
     ELSE cli' = [cli EXCEPT !.pc = "limit"]
  /\ UNCHANGED << mode, revs, resolves, listing, includePath, sizeFilter, batchSize,
                  count, runVars, readerVars, objectChan, grouperVars, resultChan >>

\* sizeLimit := config.GetSizeLimit(cfg, *project), and the call of
\* run(*oldRev, *newRev, func(size int64) bool { return size > sizeLimit }).
MainSizeLimit ==
  /\ cli.pc = "limit"
  /\ LET sizeLimit == GetSizeLimit(cli.config, cli.project, cli.env)
     IN  /\ cli' = [cli EXCEPT !.pc = "run", !.sizeLimit = sizeLimit]
         /\ sizeFilter' = [kind |-> "gt", limit |-> sizeLimit]
  /\ runpc' = "verifyStart"
  /\ UNCHANGED << mode, revs, resolves, listing, includePath, batchSize, count,
                  runErr, results, readerVars, objectChan, grouperVars, resultChan >>

\* Mutant: the size of the first file is reported.
FirstSize(files, maxFileSize) ==
  IF files = <<>> THEN maxFileSize ELSE files[1].Size

\* for _, file := range largeFiles { if file.Size > maxFileSize { ... } }
RECURSIVE LargestSize(_, _)
LargestSize(files, maxFileSize) ==
  IF files = <<>> THEN maxFileSize
  ELSE LargestSize(Tail(files),
                   IF Head(files).Size > maxFileSize THEN Head(files).Size
                   ELSE maxFileSize)

\* run has returned: log.Fatalf on an error; "REJECTED" and os.Exit(1) when
\* large files were found; the end of main otherwise.
MainDecide ==
  /\ cli.pc = "run"
  /\ runpc \in {"done", "error"}
  /\ IF runErr # "none"
     THEN cli' = [cli EXCEPT !.pc = "exited", !.exit = 1]
     ELSE IF Len(results) > 0
     THEN cli' = [cli EXCEPT !.pc = "exited", !.rejected = TRUE, !.exit = 1,
                             !.maxFileSize = LargestSize(results, 0),
                             !.report = FormatSize(LargestSize(results, 0))]
     ELSE cli' = [cli EXCEPT !.pc = "exited", !.exit = 0]
  /\ UNCHANGED << mode, revs, resolves, listing, includePath, sizeFilter, batchSize,
                  count, runVars, readerVars, objectChan, grouperVars, resultChan >>

\* The command starts with the given file, project, environment and
\* revisions; run() has not been called.
InitMain(files, projects, envs, calls) ==
  /\ \E f \in files, p \in projects, e \in envs :
       cli = [CliIdle EXCEPT !.pc = "load", !.file = f, !.project = p, !.env = e]
  /\ \E call \in calls :
       /\ revs = [start |-> call.start, end |-> call.end]
       /\ resolves = [start |-> RevParse(call.start), end |-> RevParse(call.end)]
       /\ listing = IF RevParse(call.start) /\ RevParse(call.end)
                    THEN SpanListing(call.start, call.end) ELSE <<>>
  /\ mode = "span"
  /\ count = CountIdle
  /\ includePath = TRUE
  /\ sizeFilter = NilFilter
  /\ batchSize \in 1..MaxBatchSize
  /\ runpc = "idle"
  /\ runErr = "none"
  /\ results = <<>>
  /\ procStarted = FALSE
  /\ procWaited = FALSE
  /\ procExit = "none"
  /\ readerpc = "idle"
  /\ readPos = 0
  /\ objectChan = <<>>
  /\ objectChanClosed = FALSE
  /\ grouperpc = "idle"
  /\ batch = <<>>
  /\ inputEnded = FALSE
  /\ output = <<>>
  /\ outPos = 1
  /\ queries = <<>>
  /\ evals = <<>>
  /\ resultChan = <<>>
  /\ resultChanClosed = FALSE

\* main() up to its call of run, over every configuration file, project
\* name and environment value.
InitConfig ==
  InitMain(ConfigFiles, ProjectNames, EnvValues, {[start |-> "c1", end |-> "c2"]})

NextConfig == MainLoadConfig \/ MainWhitelist \/ MainSizeLimit

SpecConfig == InitConfig /\ [][NextConfig]_vars

\* The pushes main() is run on: a new commit on main, a push whose old
\* revision does not resolve, and a push that adds nothing.
MainCalls ==
  { [start |-> "c1", end |-> "c2"], [start |-> "bad", end |-> "c2"],
    [start |-> "c2", end |-> "c2"] }

\* main() with run(), on a missing and on two valid configuration files.
InitMainRun ==
  InitMain({MissingFile, ValidFile, EmptyListedFile}, ProjectNames, {<<>>, <<"2">>},
           MainCalls)

NextMain ==
  \/ MainLoadConfig
  \/ MainWhitelist
  \/ MainSizeLimit
  \/ MainDecide
  \/ Next

SpecMain == InitMainRun /\ [][NextMain]_vars

\* The sizes of the records run() has returned.
ReturnedSizes == { results[i].Size : i \in 1..Len(results) }

\* C26 (as stated): once main() has gone through run() and exited, it has
\* exited with a failure exactly when the returned list is not empty, the
\* size it reports is then the largest of the returned records, and with an
\* empty list it has exited with status 0.
C26_RejectIffNonEmpty ==
  (cli.pc = "exited" /\ ~cli.whitelisted) =>
    /\ cli.exit = 1 <=> results # <<>>
    /\ cli.exit = 1 => (cli.maxFileSize \in ReturnedSizes /\
                        \A z \in ReturnedSizes : z <= cli.maxFileSize)
    /\ results = <<>> => cli.exit = 0

\* C26 (amended): when run() has returned an error main() has exited with a
\* failure, without a list and without a rejection message; when run() has
\* returned no error main() has exited with a failure and the rejection
\* message exactly when the list is not empty, reporting the largest size of
\* the list, and with status 0 when the list is empty.
C26_DecisionAfterRun ==
  (cli.pc = "exited" /\ ~cli.whitelisted) =>
    IF runErr # "none"
    THEN cli.exit = 1 /\ results = <<>> /\ ~cli.rejected
    ELSE /\ cli.exit = 1 <=> results # <<>>
         /\ cli.rejected <=> results # <<>>
         /\ results # <<>> => (cli.maxFileSize \in ReturnedSizes /\
                               \A z \in ReturnedSizes : z <= cli.maxFileSize)
         /\ results = <<>> => cli.exit = 0

\* C26 witness: main() has rejected a push with two large files of
\* different sizes, the smaller one first, and reported the larger size.
C26_Witness ==
  /\ cli.pc = "exited"
  /\ cli.rejected
  /\ cli.exit = 1
  /\ Len(results) >= 2
  /\ results[1].Size < cli.maxFileSize
  /\ cli.maxFileSize = 3

\* The entries of projects_whitelist in the loaded configuration.
WhitelistEntries ==
  { cli.config.ProjectsWhitelist[i] : i \in 1..Len(cli.config.ProjectsWhitelist) }

\* run() has not been called: no listing process, no bulk query.
NothingRun == runpc = "idle" /\ ~procStarted /\ readPos = 0 /\ queries = <<>>

\* C27: once the configuration is loaded, a project that equals an entry of
\* the whitelist never gets run() called, and main() has exited with status
\* 0 without a listing process or a bulk query exactly when the project
\* equals an entry of the whitelist; the empty project name and a name that
\* differs in case are entries only when listed.
C27_WhitelistBypass ==
  /\ (cli.pc \notin {"idle", "load"} /\ cli.project \in WhitelistEntries) =>
        (NothingRun /\ cli.pc \in {"whitelist", "exited"})
  /\ cli.pc = "exited" =>
        ((cli.exit = 0 /\ NothingRun) <=> cli.project \in WhitelistEntries)
  /\ (cli.pc = "exited" /\ cli.project \in {"", "P1"} /\ cli.file # EmptyListedFile) =>
        ~NothingRun

\* C27 witness: main() has exited with status 0 for the empty project name,
\* which the whitelist lists, on a push that run() would have failed on.
C27_Witness ==
  /\ cli.pc = "exited"
  /\ cli.exit = 0
  /\ cli.project = ""
  /\ cli.file = EmptyListedFile
  /\ ~resolves.start
  /\ NothingRun

\* The limit the priority project > environment > default gives.
ExpectedLimit ==
  IF cli.project \in DOMAIN cli.config.ProjectSizeLimits
  THEN cli.config.ProjectSizeLimits[cli.project]
  ELSE CASE cli.env = <<"2">>      -> 2
         [] cli.env = <<"1", "0">> -> 10
         [] cli.env = <<"-", "1">> -> 0 - 1
         [] cli.env = <<"+", "3">> -> 3
         [] OTHER                  -> 5242880

\* C28: the limit main() has got from GetSizeLimit is the project's limit
\* when the loaded configuration has one for the project, else the value of
\* GITHOOK_FILE_SIZE_MAX when that is a decimal numeral, else 5 MiB; in
\* particular 5 MiB when the value is unset, empty or no numeral.
C28_SizeLimitPriority ==
  cli.pc = "run" =>
    /\ cli.sizeLimit = ExpectedLimit
    /\ sizeFilter = [kind |-> "gt", limit |-> ExpectedLimit]
    /\ ( /\ cli.project \notin DOMAIN cli.config.ProjectSizeLimits
         /\ cli.env \in {<<>>, <<"x">>, <<"2", "k">>} ) =>
         cli.sizeLimit = 5 * 1024 * 1024

\* C28 witness: project p2 has got its limit 0 from the file although the
\* environment says 10.
C28_Witness ==
  /\ cli.pc = "run"
  /\ cli.project = "p2"
  /\ cli.file = ValidFile
  /\ cli.env = <<"1", "0">>
  /\ cli.sizeLimit = 0

\* The value the configuration file gives for a key, or a default when
\* the file has no such key.
FileValue(key, default) ==
  LET at == { i \in 1..Len(cli.file.entries) : cli.file.entries[i].key = key }
  IN  IF at = {} THEN default ELSE cli.file.entries[CHOOSE i \in at : TRUE].value

\* The file can be read and is a YAML document of the Config shape.
FileIsValid ==
  /\ cli.file.state = "readable"
  /\ cli.file.syntaxOk
  /\ \A i \in 1..Len(cli.file.entries) : cli.file.entries[i].typed

\* C29: LoadConfig has returned no error; for a file that is missing,
\* unreadable or no valid document it has returned the empty whitelist, the
\* empty limits and empty log settings, and for a valid file the file's
\* whitelist, limits and log settings (empty where the file has none).
C29_LoadConfigTotal ==
  cli.pc \notin {"idle", "load"} =>
    /\ cli.loadErr = "none"
    /\ ~FileIsValid =>
         /\ cli.config.ProjectsWhitelist = <<>>
         /\ DOMAIN cli.config.ProjectSizeLimits = {}
         /\ cli.config.LogConfig = [Level |-> "", Output |-> ""]
    /\ FileIsValid =>
         /\ cli.config.ProjectsWhitelist = FileValue("projects_whitelist", <<>>)
         /\ cli.config.ProjectSizeLimits = FileValue("project_size_limits", EmptyLimits)
         /\ cli.config.LogConfig = FileValue("log_config", [Level |-> "", Output |-> ""])

\* C29 witness: the file whose whitelist is well formed and whose limits
\* are not has been loaded as the empty configuration.
C29_Witness ==
  /\ cli.pc \notin {"idle", "load"}
  /\ cli.file = PartlyTypedFile
  /\ cli.config = EmptyConfig

\* ------------------------------------------------------ calls of FormatSize
\* The sizes FormatSize is called with: small ones, the neighbourhood of
\* each threshold, sizes whose scaled value is a tie, and large ones.
FormatSizes ==
  ((0 - 2)..30) \cup {500} \cup (1000..1050) \cup {1152, 1536, 2048, 10240}
    \cup ((MB - 3)..(MB + 3)) \cup {MB + MB \div 2, 5 * MB}
    \cup ((GB - 3)..(GB + 3)) \cup {GB + GB \div 8, GB + (GB - 1)}

\* FormatSize(size) is called and returns.
CallFormatSize ==
  /\ cli.pc = "format"
  /\ cli' = [cli EXCEPT !.pc = "formatted", !.report = FormatSize(cli.maxFileSize)]
  /\ UNCHANGED << mode, revs, resolves, listing, includePath, sizeFilter, batchSize,
                  count, runVars, readerVars, objectChan, grouperVars, resultChan >>

\* A call FormatSize(size); nothing else runs.
InitFormat ==
  /\ \E size \in FormatSizes :
       cli = [CliIdle EXCEPT !.pc = "format", !.maxFileSize = size]
  /\ count = CountIdle
  /\ mode = "span"
  /\ revs = [start |-> "oldrev", end |-> "newrev"]
  /\ resolves = [start |-> TRUE, end |-> TRUE]
  /\ listing = <<>>
  /\ includePath = FALSE
  /\ sizeFilter = NilFilter
  /\ batchSize = 1
  /\ runpc = "idle"
  /\ runErr = "none"
  /\ results = <<>>
  /\ procStarted = FALSE
  /\ procWaited = FALSE
  /\ procExit = "none"
  /\ readerpc = "idle"
  /\ readPos = 0
  /\ objectChan = <<>>
  /\ objectChanClosed = FALSE
  /\ grouperpc = "idle"
  /\ batch = <<>>
  /\ inputEnded = FALSE
  /\ output = <<>>
  /\ outPos = 1
  /\ queries = <<>>
  /\ evals = <<>>
  /\ resultChan = <<>>
  /\ resultChanClosed = FALSE

NextFormat == CallFormatSize

SpecFormat == InitFormat /\ [][NextFormat]_vars

\* The characters of a text from position i on.
TextFrom(text, i) == SubSeq(text, i, Len(text))

\* A text is a run of one or more decimal digits.
IsDigits(text) ==
  text # <<>> /\ \A i \in 1..Len(text) : \E d \in 1..10 : DigitChars[d] = text[i]

\* The number a run of decimal digits stands for.
RECURSIVE DigitsNumber(_)
DigitsNumber(text) ==
  IF text = <<>> THEN 0
  ELSE 10 * DigitsNumber(SubSeq(text, 1, Len(text) - 1))
         + (CHOOSE d \in 0..9 : DigitChars[d + 1] = text[Len(text)])

\* A text is "<digits>.<two digits> <unit>".
IsTwoDecimals(text, unit) ==
  LET n == Len(text)
  IN  /\ n >= 7
      /\ TextFrom(text, n - 2) = <<" ">> \o unit
      /\ text[n - 5] = "."
      /\ IsDigits(SubSeq(text, 1, n - 6))
      /\ IsDigits(SubSeq(text, n - 4, n - 3))

\* C30: the text FormatSize has returned is "<n> B" for a size below 1024,
\* and a number with two decimals followed by KB, MB or GB for a size from
\* 1024, from 1024^2 and from 1024^3 on; the KB value is the size divided by
\* 1024 within half a hundredth; and the texts of the examples are as given.
C30_UnitByThreshold ==
  cli.pc = "formatted" =>
    LET size == cli.maxFileSize
        text == cli.report
    IN  /\ size < 1024 =>
             /\ TextFrom(text, Len(text) - 1) = <<" ", "B">>
             /\ IF size < 0
                THEN Head(text) = "-" /\
                     DigitsNumber(SubSeq(text, 2, Len(text) - 2)) = 0 - size
                ELSE IsDigits(SubSeq(text, 1, Len(text) - 2)) /\
                     DigitsNumber(SubSeq(text, 1, Len(text) - 2)) = size
        /\ (size >= 1024 /\ size < 1024 * 1024) =>
             /\ IsTwoDecimals(text, <<"K", "B">>)
             /\ LET h == 100 * DigitsNumber(SubSeq(text, 1, Len(text) - 6))
                           + DigitsNumber(SubSeq(text, Len(text) - 4, Len(text) - 3))
                    d == h * 1024 - size * 100
                IN  d <= 512 /\ 0 - d <= 512
        /\ (size >= 1024 * 1024 /\ size < 1024 * 1024 * 1024) =>
             IsTwoDecimals(text, <<"M", "B">>)
        /\ size >= 1024 * 1024 * 1024 => IsTwoDecimals(text, <<"G", "B">>)
        /\ size = 0 => text = <<"0", " ", "B">>
        /\ size = 500 => text = <<"5", "0", "0", " ", "B">>
        /\ size = 1023 => text = <<"1", "0", "2", "3", " ", "B">>
        /\ size = 1024 => text = <<"1", ".", "0", "0", " ", "K", "B">>
        /\ size = 2048 => text = <<"2", ".", "0", "0", " ", "K", "B">>
        /\ size = 1048576 => text = <<"1", ".", "0", "0", " ", "M", "B">>
        /\ size = 1073741824 => text = <<"1", ".", "0", "0", " ", "G", "B">>

\* C30 witness: FormatSize(1024) has returned "1.00 KB".
C30_Witness ==
  /\ cli.pc = "formatted"
  /\ cli.maxFileSize = 1024
  /\ cli.report = <<"1", ".", "0", "0", " ", "K", "B">>

\* ------------------------------------------------- calls of the size predicate
\* The complete answer of the k-th bulk query.
AnswerOf(k) == CatFile(Join(queries[k].input))

\* A response line of type blob with a non-empty path.
IsCandidate(line) ==
  /\ Len(line) >= 4
  /\ line[3] = "blob"
  /\ line[Len(line)] # ""

\* The bulk queries whose output has been scanned to its end.
ScannedQueries ==
  { k \in 1..Len(queries) : k < Len(queries) \/ grouperpc # "emit" }

\* The calls of the size predicate that returned true, in call order.
AcceptedCalls == SelectSeq(evals, LAMBDA e : ApplyFilter(sizeFilter, e.size))

\* C31: every call of the size predicate is made on a candidate blob line
\* (type blob, non-empty path) of the answer of a bulk query that succeeded,
\* with the size of that line; no line is passed twice; once the output of a
\* successful query is scanned every candidate line of it has been passed;
\* without a predicate there is no call; and the records emitted are those of
\* the calls that returned true, each decided by its own size alone.
C31_PredicateOncePerCandidate ==
  /\ \A n \in 1..Len(evals) :
       LET e == evals[n]
       IN  /\ e.query \in 1..Len(queries)
           /\ queries[e.query].outcome = "ok"
           /\ e.line \in 1..Len(AnswerOf(e.query))
           /\ IsCandidate(AnswerOf(e.query)[e.line])
           /\ e.size = Decimal[AnswerOf(e.query)[e.line][2]]
  /\ \A n, m \in 1..Len(evals) :
       n < m => \/ evals[n].query < evals[m].query
                \/ (evals[n].query = evals[m].query /\ evals[n].line < evals[m].line)
  /\ sizeFilter.kind = "nil" => evals = <<>>
  /\ sizeFilter.kind # "nil" =>
       /\ \A k \in ScannedQueries :
            queries[k].outcome = "ok" =>
              \A i \in 1..Len(AnswerOf(k)) :
                IsCandidate(AnswerOf(k)[i]) =>
                  \E n \in 1..Len(evals) : evals[n].query = k /\ evals[n].line = i
       /\ Emitted = [n \in 1..Len(AcceptedCalls) |->
                       FileInfo(AnswerOf(AcceptedCalls[n].query)[AcceptedCalls[n].line])]

\* C31 witness: the pipeline has ended; the predicate was called on two or
\* more blobs, returned true for one and false for another, and a tree with
\* a path was in an answer.
C31_Witness ==
  /\ runpc = "done"
  /\ Len(evals) >= 2
  /\ \E n \in 1..Len(evals) : ApplyFilter(sizeFilter, evals[n].size)
  /\ \E n \in 1..Len(evals) : ~ApplyFilter(sizeFilter, evals[n].size)
  /\ \E k \in 1..Len(queries) :
       queries[k].outcome = "ok" /\
       \E i \in 1..Len(AnswerOf(k)) :
         AnswerOf(k)[i][3] = "tree" /\ AnswerOf(k)[i][Len(AnswerOf(k)[i])] # ""

\* ------------------------------------------------------------ group shape
\* ceil(n / d)
CeilDiv(n, d) == (n + d - 1) \div d

\* C32: the batch never holds more than batchSize identifiers; no bulk query
\* is issued for an empty group; every bulk query but the one issued after
\* the end of the input carries exactly batchSize identifiers, and that one
\* at most batchSize; and when the grouping task has ended on n identifiers
\* it has issued ceil(n / batchSize) bulk queries.
C32_GroupShape ==
  /\ Len(batch) <= batchSize
  /\ \A k \in 1..Len(queries) :
       /\ Len(queries[k].input) >= 1
       /\ Len(queries[k].input) <= batchSize
       /\ (k < Len(queries) \/ ~inputEnded) => Len(queries[k].input) = batchSize
  /\ grouperpc = "done" =>
       /\ Len(Submitted) = Len(AllIdentifiers)
       /\ Len(queries) = CeilDiv(Len(AllIdentifiers), batchSize)

\* C32 witness: the grouping task has ended after a full group of two
\* identifiers and a last group of one.
C32_Witness ==
  /\ grouperpc = "done"
  /\ batchSize = 2
  /\ Len(queries) = 2
  /\ Len(queries[1].input) = 2
  /\ Len(queries[2].input) = 1

\* ------------------------------------------------------- record contents
\* C33: every record handed to the result channel carries the hash, the size
\* and the path of one line of the response of a bulk query that succeeded;
\* its size is a non-negative integer; and that response line answers the
\* identifier line at the same position of the query's input, whose hash and
\* path the record carries.
C33_RecordFromOneResponseLine ==
  \A r \in Range(Emitted) :
    /\ r.Size \in Nat
    /\ \E k \in 1..Len(queries) :
         /\ queries[k].outcome = "ok"
         /\ \E j \in 1..Len(AnswerOf(k)) :
              LET l == AnswerOf(k)[j]
              IN  /\ Matches(l)
                  /\ r.Hash = l[1]
                  /\ r.Size = ParseInt(l[2])
                  /\ r.Path = PathOf(l)
                  /\ j <= Len(queries[k].input)
                  /\ queries[k].input[j] = <<r.Hash>> \o r.Path

\* C33 witness: a group of an unknown object and a file whose path holds a
\* space was queried, and the record of the file, the second line of the
\* response, was collected with its size.
C33_Witness ==
  /\ Len(queries) >= 1
  /\ queries[1].outcome = "ok"
  /\ queries[1].input = << <<"e0", "p">>, <<"b2", "x", "y">> >>
  /\ results = << [Hash |-> "b2", Size |-> 3, Path |-> <<"x", "y">>] >>

\* ------------------------------------------------------- process handles
\* A step of the listing reader, of the grouping task, of run().
ReaderStep == << readerpc, readPos >> # << readerpc', readPos' >>
GrouperStep == grouperVars # grouperVars' \/ Len(resultChan') > Len(resultChan)
RunStep == runVars # runVars'

PositionOf(k, j) == Len(Concat([q \in 1..(k - 1) |-> queries[q].input])) + j

\* The places (query, index) at which bulk queries carried an identifier.
QueryPlaces ==
  { kj \in (1..Len(queries)) \X (1..batchSize) : kj[2] <= Len(queries[kj[1]].input) }

\* C35: the inputs of the bulk queries issued so far, concatenated in issue
\* order, are a prefix of the identifier sequence fed to the channel, the
\* batch holding the identifiers received since; the identifier at each place
\* of a bulk query is the input identifier of that position, no two places
\* stand for the same position and every position flushed so far has its
\* place; and when the grouping task has ended the concatenation is the
\* whole input sequence.
C35_NothingLostNorDuplicated ==
  LET all == AllIdentifiers
      sub == Submitted
      pos == [kj \in QueryPlaces |-> PositionOf(kj[1], kj[2])]
  IN  /\ IsPrefix(Received, all)
      /\ IsPrefix(sub, Received)
      /\ \A kj \in QueryPlaces :
           /\ pos[kj] \in 1..Len(all)
           /\ queries[kj[1]].input[kj[2]] = all[pos[kj]]
      /\ Cardinality({ pos[kj] : kj \in QueryPlaces }) = Len(sub)
      /\ Cardinality(QueryPlaces) = Len(sub)
      /\ grouperpc = "done" => sub = all

\* C35 witness: the grouping task has ended on three identifiers, two of them
\* the same line, submitted in a group of two and a group of one, the first
\* of which failed.
C35_Witness ==
  /\ grouperpc = "done"
  /\ Len(listing) = 3
  /\ listing[1] = listing[3]
  /\ Len(queries) = 2
  /\ queries[1].outcome # "ok"
  /\ Submitted = listing

\* ------------------------------------- a listing process that can fail
\* The pipeline with a listing process that may fail at any point of its
\* output, called on references that resolve, with paths.
InitListing ==
  /\ Init
  /\ resolves = [start |-> TRUE, end |-> TRUE]
  /\ includePath = TRUE

NextListing == Next \/ ReaderListingFailed

SpecListing == InitListing /\ [][NextListing]_vars

\* ------------------------------------------------------- channel closing
\* C36: each channel is closed once, by the task that sends on it, in the
\* step that ends that task and after its last send: the identifier channel
\* by the reader when its scan has ended, the result channel by the grouping
\* task when its input has ended and no record of its last group is left to
\* send; an ended task stays ended, a closed channel stays closed and nothing
\* is sent on it; a task has ended exactly when its channel is closed.
C36_CloseDiscipline ==
  [][ /\ (readerpc' = "done") = objectChanClosed'
      /\ (grouperpc' = "done") = resultChanClosed'
      /\ objectChanClosed =>
           /\ objectChanClosed' /\ ~ReaderStep
           /\ Len(objectChan') <= Len(objectChan)
      /\ resultChanClosed =>
           /\ resultChanClosed' /\ ~GrouperStep
           /\ Len(resultChan') <= Len(resultChan)
      /\ (objectChanClosed' /\ ~objectChanClosed) =>
           /\ ReaderStep /\ ~GrouperStep /\ ~RunStep
           /\ readerpc = "scan"
           /\ objectChan' = objectChan
           /\ readPos' = readPos
           /\ procExit' \in {"ok", "error"}
      /\ (resultChanClosed' /\ ~resultChanClosed) =>
           /\ GrouperStep /\ ~ReaderStep /\ ~RunStep
           /\ grouperpc \in {"recv", "emit"}
           /\ inputEnded' /\ objectChanClosed /\ objectChan = <<>>
           /\ resultChan' = resultChan
           /\ NextEmit(output, outPos, sizeFilter) = 0
    ]_vars

\* C36 witness: both channels are closed after a listing process that exited
\* with an error and a run in which one bulk query failed and a later one
\* yielded a record.
C36_Witness ==
  /\ objectChanClosed
  /\ resultChanClosed
  /\ procExit = "error"
  /\ \E k \in 1..Len(queries) : queries[k].outcome # "ok"
  /\ results # <<>>
  /\ runpc = "done"

\* ------------------------------------------------------ stop-and-go staging
\* C37: a record is handed over only by the grouping task in its scan of the
\* completed answer of its last bulk query, so only after batchSize
\* identifiers were received or the input had ended; while the grouping task
\* receives or is about to query, no record is in flight and the consumer
\* holds every record of every group queried so far; while a record is in
\* flight the batch is still the group that was queried and the reader has
\* scanned at most one identifier more than the bulk queries were given.
C37_StopAndGo ==
  /\ Emitted # <<>> =>
       /\ queries # <<>>
       /\ Len(Received) >= batchSize \/ inputEnded
  /\ grouperpc \in {"recv", "query", "done"} =>
       /\ resultChan = <<>>
       /\ results = RecordsOfQueries
  /\ resultChan # <<>> =>
       /\ grouperpc = "emit"
       /\ queries[Len(queries)].outcome = "ok"
       /\ batch = queries[Len(queries)].input
       /\ Received = Submitted
       /\ Len(SentAfter(readPos)) <= Len(Submitted) + 1
       /\ IsPrefix(results \o resultChan, RecordsOfQueries)

\* C37 witness: the first record of a full group of two is in flight to a
\* consumer that has received nothing, the second is still to be sent, and
\* the reader is blocked on the third identifier.
C37_Witness ==
  /\ resultChan # <<>>
  /\ results = <<>>
  /\ batchSize = 2
  /\ Len(queries) = 1
  /\ NextEmit(output, outPos, sizeFilter) # 0
  /\ readPos = 3
  /\ objectChan # <<>>

\* ------------------------------------------- a listing that fails mid-stream
\* C38: however the listing process ended, the reader ends with the process
\* waited on and the identifier channel closed; the bulk queries are given
\* exactly the identifiers of the lines read before the end; run() never
\* takes an error from it; and a finished run returns, with a nil error, the
\* records of the lines read, the same function of them whether the process
\* exited with an error part-way or printed them all and exited cleanly.
C38_ListingFailureUnreported ==
  /\ procExit = "ok" => readPos = Len(listing)
  /\ procExit # "none" => (readerpc = "done" /\ procWaited /\ objectChanClosed)
  /\ procStarted => runErr = "none"
  /\ grouperpc = "done" => Submitted = SentAfter(readPos)
  /\ runpc = "done" =>
       /\ procExit \in {"ok", "error"}
       /\ runErr = "none"
       /\ results = RecordsOfQueries
       /\ NoQueryFailed => results = RecordsOf(SentAfter(readPos), sizeFilter)

\* C38 witness: the listing process failed after one of its lines was read and
\* before the last one; the run has ended with a nil error and the record of
\* the line read, which is not the record list of the whole listing.
C38_Witness ==
  /\ runpc = "done"
  /\ runErr = "none"
  /\ procExit = "error"
  /\ readPos >= 1
  /\ readPos < Len(listing)
  /\ NoQueryFailed
  /\ results # <<>>
  /\ results # RecordsOf(AllIdentifiers, sizeFilter)

\* ------------------------------------------------- identifiers without path
\* C39: when the enumeration is made with includePath = false, every
\* identifier given to a bulk query is a hash alone, no record is ever handed
\* over and the size predicate is never consulted, whatever the predicate; a
\* finished run returns nothing with a nil error; and the grouping task still
\* ends having queried every group: ceil(n / batchSize) queries for the n
\* lines of the listing, the last partial group included.
C39_HashOnlyYieldsNothing ==
  ~includePath =>
    /\ \A k \in 1..Len(queries) : \A j \in 1..Len(queries[k].input) :
         Len(queries[k].input[j]) = 1
    /\ Emitted = <<>>
    /\ evals = <<>>
    /\ runpc = "done" => (results = <<>> /\ runErr = "none")
    /\ grouperpc = "done" =>
         /\ Len(Submitted) = Len(listing)
         /\ Len(queries) = CeilDiv(Len(listing), batchSize)
         /\ Len(listing) % batchSize # 0 =>
              Len(queries[Len(queries)].input) = Len(listing) % batchSize

\* C39 witness: a hash-only run over an enumeration of an odd number of
\* lines, one of them a file with its path, has ended after successful bulk
\* queries of two identifiers and a last one of a single identifier, and
\* returned nothing.
C39_Witness ==
  /\ ~includePath
  /\ runpc = "done"
  /\ batchSize = 2
  /\ Len(listing) % 2 = 1
  /\ Len(queries) = CeilDiv(Len(listing), 2)
  /\ Len(queries) >= 2
  /\ NoQueryFailed
  /\ Len(queries[Len(queries)].input) = 1
  /\ <<"b2", "x", "y">> \in Range(listing)
  /\ results = <<>>
====
